---- MODULE Spec2Model ----
(***************************************************************************)
(* tagparse: Stream -> Lexer -> Parser.                                    *)
(*                                                                         *)
(* Text is modelled as a sequence of code points, each code point a        *)
(* one-character string.  The Lexer and the recursive-descent Parser are   *)
(* operators translated from the source; one Parser instance is the state  *)
(* of the machine and every call of parse() is one action.                 *)
(***************************************************************************)
EXTENDS Integers, Sequences, FiniteSets, TLC

VARIABLES
    strict,           \* Parser.strict
    evaluateTags,     \* Parser.evaluateTags
    lexerOptions,     \* Parser.lexerOptions
    nodes,            \* Parser.nodes: the identity of the array it refers to
    heap,             \* the arrays allocated so far: identity -> contents
    stack,            \* Parser.stack
    reachedEof,       \* Parser.reachedEof
    currentPosition,  \* Parser.currentPosition
    source,           \* the input the instance's lexer is bound to
    consumed,         \* tokens already taken from the iterator Parser.input
    returned,         \* what each call of parse() gave its caller, in order
    trace,            \* observations on the last call (resolver calls, branches)
    options,          \* the options object handed to the constructor
    built,            \* how the constructor ended: not run yet, ok, or threw
    aInst,            \* the mutable fields of one ParserAsync instance
    aHeap,            \* the node arrays its calls allocated: identity -> contents
    aIters,           \* the token generators its calls created
    aCalls,           \* the parseAsync calls made on it, in order of start
    aLog,             \* the resolver invocations and settlements, in order
    lInput,           \* the input one Lexer was constructed with
    lOptions,         \* the options that Lexer was constructed with
    lStream,          \* Lexer.stream: the fields of its Stream
    lLexer,           \* Lexer.tokens, Lexer.buffer, Lexer.bufferStartPosition
    lAt,              \* where the generator of that Lexer stands
    lPending,         \* the token addToken has yet to push, if it is suspended there
    lDone,            \* the iteration of that Lexer has ended
    wNodes,           \* the list of nodes handed to a walk
    wVisitor,         \* the visitor handed to it
    wCall,            \* the call made: its function, the callbacks invoked, its result
    tInput,           \* the objects handed to transform, as they were built
    tHeap,            \* the objects as they are now
    tTransformers,    \* the transformers handed to transform
    tCall             \* the call made: the list it returned, the nodes offered

syncVars == <<nodes, heap, stack, reachedEof, currentPosition, source, consumed,
              returned, trace>>

asyncVars == <<aInst, aHeap, aIters, aCalls, aLog>>

lexVars == <<lInput, lOptions, lStream, lLexer, lAt, lPending, lDone>>

\* the state of the library objects used without a parser
walkVars == <<wNodes, wVisitor, wCall>>

transVars == <<tInput, tHeap, tTransformers, tCall>>

libVars == <<lexVars, walkVars, transVars>>

vars == <<strict, evaluateTags, lexerOptions, nodes, heap, stack, reachedEof,
          currentPosition, source, consumed, returned, trace, options, built,
          aInst, aHeap, aIters, aCalls, aLog,
          lInput, lOptions, lStream, lLexer, lAt, lPending, lDone,
          wNodes, wVisitor, wCall,
          tInput, tHeap, tTransformers, tCall>>

(***************************************************************************)
(* Bounds of the model.                                                    *)
(***************************************************************************)
\* longest generated tail of an input, in code points
MaxLen == 4
\* parse() calls made on one instance under SpecReuse
MaxCalls == 2
\* transformers handed to one call of transform
MaxTransformers == 2
\* parseAsync() calls made on one instance under SpecAsync
MaxAsyncCalls == 2
\* longest generated input under SpecReuse
MaxReuseLen == 1
\* longest generated input of the Lexer under SpecLex, in code points
MaxLexLen == 4

(***************************************************************************)
(* Code points.                                                            *)
(***************************************************************************)
Alphabet == {"{", "}", ":", "|", " ", "\\", "a"}

\* code points outside the Basic Multilingual Plane (two UTF-16 code units)
AstralChars == {"U+1F9EA"}

\* String.length of one code point, in UTF-16 code units
UnitLen(c) == IF c \in AstralChars THEN 2 ELSE 1

RECURSIVE Utf16Len(_)
Utf16Len(s) == IF s = <<>> THEN 0 ELSE UnitLen(Head(s)) + Utf16Len(Tail(s))

\* s.slice(0, -n) for n >= 1 on a text whose code points are one unit each
DropLast(s, n) == SubSeq(s, 1, Len(s) - n)

\* s.endsWith(t)
EndsWith(s, t) ==
    /\ Len(t) <= Len(s)
    /\ SubSeq(s, Len(s) - Len(t) + 1, Len(s)) = t

\* mutant of EndsWithBackslash: no text counts as ending in a backslash
EndsWithBackslashNever(s) == FALSE

\* s.at(-1) === "\\" on a non-empty s
EndsWithBackslash(s) == Len(s) > 0 /\ s[Len(s)] = "\\"

(***************************************************************************)
(* Stream (src/src/lib/Stream.ts).                                         *)
(***************************************************************************)
\* the -1 sentinel of currentCodePoint
NoCodePoint == "-1"

StreamNew(str) ==
    [buffer |-> str, currentCodePoint |-> NoCodePoint,
     line |-> 1, column |-> 1, offset |-> 0, started |-> FALSE]

StreamPeek(s) == s.currentCodePoint

StreamGetPosition(s) == [line |-> s.line, column |-> s.column, offset |-> s.offset]

\* next(): the stream after the call and the boolean it returns
StreamNext(s) ==
    IF Len(s.buffer) = 0
    THEN [ok |-> FALSE, s |-> [s EXCEPT !.currentCodePoint = NoCodePoint]]
    ELSE LET moved == s.started /\ s.currentCodePoint # NoCodePoint
             nl == s.currentCodePoint = "\n"
             s1 == IF moved
                   THEN [s EXCEPT !.offset = @ + 1,
                                  !.line = IF nl THEN @ + 1 ELSE @,
                                  !.column = IF nl THEN 1 ELSE @ + 1]
                   ELSE s
         IN [ok |-> TRUE,
             s |-> [s1 EXCEPT !.started = TRUE,
                              !.currentCodePoint = Head(s.buffer),
                              !.buffer = Tail(s.buffer)]]

StreamLength(s) ==
    s.offset + Len(s.buffer) + (IF s.currentCodePoint = NoCodePoint THEN 0 ELSE 1)

(***************************************************************************)
(* Lexer (src/src/lib/Lexer.ts).  A lexer state is the record              *)
(* [tokens, buffer, bufferStartPosition]: tokens is the list of tokens     *)
(* yielded so far.                                                         *)
(***************************************************************************)
\* null / undefined position
NoPosition == [line |-> 0, column |-> 0, offset |-> 0]

DefaultLexerOptions == [tagStart |-> <<"{">>, tagEnd |-> <<"}">>]

\* the constructor's tagStart?.length ? tagStart : "{"
LexerTagStart(opts) == IF Len(opts.tagStart) > 0 THEN opts.tagStart ELSE <<"{">>
LexerTagEnd(opts) == IF Len(opts.tagEnd) > 0 THEN opts.tagEnd ELSE <<"}">>

LexerNew == [tokens |-> <<>>, buffer |-> <<>>, bufferStartPosition |-> NoPosition]

Flush(lx) ==
    IF Len(lx.buffer) > 0
    THEN [lx EXCEPT !.tokens = Append(@, [type |-> "Literal", value |-> lx.buffer,
                                          position |-> lx.bufferStartPosition]),
                    !.buffer = <<>>,
                    !.bufferStartPosition = NoPosition]
    ELSE lx

\* mutant of AddToken: the pending buffer is not flushed before the token
AddTokenNoFlush(lx, token) == [lx EXCEPT !.tokens = Append(@, token)]

AddToken(lx, token) == [Flush(lx) EXCEPT !.tokens = Append(@, token)]

\* mutant of HandleDelimiter: the delimiter's prefix is left in the buffer
HandleDelimiterKeepsPrefix(lx, type, delim, char, position) ==
    IF Len(delim) > 1 /\ ~EndsWith(lx.buffer, SubSeq(delim, 1, Len(delim) - 1))
    THEN [lx EXCEPT !.buffer = Append(@, char),
                    !.bufferStartPosition = IF Len(lx.buffer) = 0 THEN position ELSE @]
    ELSE AddToken(lx, [type |-> type, value |-> delim, position |-> position])

\* handleTagStart and handleTagEnd: the same code on (type, delimiter)
HandleDelimiter(lx, type, delim, char, position) ==
    IF Len(delim) > 1
    THEN LET leftOut == SubSeq(delim, 1, Len(delim) - 1)
         IN IF EndsWith(lx.buffer, leftOut)
            THEN AddToken([lx EXCEPT !.buffer = DropLast(@, Len(leftOut))],
                          [type |-> type, value |-> delim,
                           position |-> [position EXCEPT
                                           !.column = @ - Utf16Len(leftOut),
                                           !.offset = @ - Utf16Len(leftOut)]])
            ELSE [lx EXCEPT !.buffer = Append(@, char),
                            !.bufferStartPosition =
                                IF Len(lx.buffer) = 0 THEN position ELSE @]
    ELSE AddToken(lx, [type |-> type, value |-> delim, position |-> position])

HandleTagStart(lx, opts, char, position) ==
    HandleDelimiter(lx, "TagStart", LexerTagStart(opts), char, position)

HandleTagEnd(lx, opts, char, position) ==
    HandleDelimiter(lx, "TagEnd", LexerTagEnd(opts), char, position)

\* one turn of the while loop of the iterator, on the code point just read
LexChar(lx0, opts, char, position) ==
    LET ts == LexerTagStart(opts)
        te == LexerTagEnd(opts)
        lx == IF Len(lx0.buffer) = 0
              THEN [lx0 EXCEPT !.bufferStartPosition = position]
              ELSE lx0
    IN IF char = ts[Len(ts)] THEN HandleTagStart(lx, opts, char, position)
       ELSE IF char = ":" THEN
            AddToken(lx, [type |-> "Colon", value |-> <<":">>, position |-> position])
       ELSE IF char = "|" THEN
            AddToken(lx, [type |-> "Pipe", value |-> <<"|">>, position |-> position])
       ELSE IF char = te[Len(te)] THEN HandleTagEnd(lx, opts, char, position)
       ELSE IF char = " " THEN
            AddToken(lx, [type |-> "Space", value |-> <<" ">>, position |-> position])
       ELSE [lx EXCEPT !.buffer = Append(@, char),
                       !.bufferStartPosition =
                           IF Len(lx.buffer) = 0 THEN position ELSE @]

\* the lexer after one more turn of the loop, on the stream after its next()
LexTurn(s, lx, opts) ==
    [stream |-> s, lx |-> LexChar(lx, opts, StreamPeek(s), StreamGetPosition(s))]

\* while (this.stream.next()) ...; then the flush of the pending buffer.
\* g holds the stream and the lexer state
RECURSIVE LexLoop(_, _)
LexLoop(g, opts) ==
    IF StreamNext(g.stream).ok
    THEN LexLoop(LexTurn(StreamNext(g.stream).s, g.lx, opts), opts)
    ELSE Flush(g.lx)

\* every token the iterator yields for input, in order
Tokenize(input, opts) ==
    LexLoop([stream |-> StreamNew(input), lx |-> LexerNew], opts).tokens

(***************************************************************************)
(* Errors (src/src/lib/Errors.ts).                                         *)
(***************************************************************************)
NoError == [name |-> "none", message |-> <<>>, position |-> NoPosition]

\* mutant of TagParseError: the position is kept but not rendered
TagParseErrorBare(message, position) ==
    [name |-> "TagParseError", message |-> <<message>>, position |-> position]

\* new TagParseError(message, position) of a message given as its pieces:
\* the rendered message is a list of the pieces the template literal
\* concatenates
RenderedError(pieces, position) ==
    [name |-> "TagParseError",
     message |-> IF position # NoPosition
                 THEN pieces \o <<" at line ", position.line,
                                  ", column ", position.column>>
                 ELSE pieces,
     position |-> position]

\* new TagParseError(message, position)
TagParseError(message, position) == RenderedError(<<message>>, position)

StrictModeError(message, position) ==
    [TagParseError(message, position) EXCEPT !.name = "StrictModeError"]

MsgSpaces == "Tags cannot contain spaces. Escape them or disable strict mode."
MsgLiteral == "Tags must start with a literal character and not be empty."
MsgEmpty == "Empty tags are not allowed."
MsgNoArgs == "Expected at least one argument for the tag payload."
MsgUnexpected ==
    "Unexpected token encountered within tag. Escape it or disable strict mode."
MsgEof == "Unexpected end of input"

(***************************************************************************)
(* Values a resolver may return: a JavaScript value is the record of its   *)
(* typeof and of the text String(value) gives.                             *)
(***************************************************************************)
JsString(text) == [typeof |-> "string", text |-> text]
JsNumber == [typeof |-> "number", text |-> <<"7">>]
JsBoolean == [typeof |-> "boolean", text |-> <<"t", "r", "u", "e">>]
JsNull == [typeof |-> "object", text |-> <<"n", "u", "l", "l">>]
JsUndefined ==
    [typeof |-> "undefined", text |-> <<"u", "n", "d", "e", "f", "i", "n", "e", "d">>]

RECURSIVE JoinRaw(_, _)
JoinRaw(parts, sep) ==
    IF Len(parts) = 0 THEN <<>>
    ELSE IF Len(parts) = 1 THEN parts[1]
    ELSE parts[1] \o sep \o JoinRaw(Tail(parts), sep)

(***************************************************************************)
(* Resolvers handed to the constructor.  They do not throw.  The variable  *)
(* resolver upper-cases "user", gives a number for "\", a boolean for      *)
(* "a\", null for "aa", and the name behind a marker otherwise; the        *)
(* function resolver gives undefined for "aa" and otherwise the name and   *)
(* the finalValue of every argument it was handed.                         *)
(***************************************************************************)
VariableParserFn(raw) ==
    IF raw = <<"u", "s", "e", "r">> THEN JsString(<<"U", "S", "E", "R">>)
    ELSE IF raw = <<"\\">> THEN JsNumber
    ELSE IF raw = <<"a", "\\">> THEN JsBoolean
    ELSE IF raw = <<"a", "a">> THEN JsNull
    ELSE JsString(<<"V">> \o raw)

FunctionParserFn(name, args) ==
    IF name = <<"a", "a">> THEN JsUndefined
    ELSE JsString(<<"F">> \o name \o <<":">>
                  \o JoinRaw([i \in 1..Len(args) |-> args[i].finalValue], <<",">>))

\* VariableTagParser.parse
VariableTagParserParse(raw) ==
    [type |-> "Variable", raw |-> raw, value |-> VariableParserFn(raw)]

\* FunctionTagParser.parse
FunctionTagParserParse(name, args) ==
    [type |-> "Function", name |-> name, args |-> args,
     value |-> FunctionParserFn(name, args)]

(***************************************************************************)
(* Parser (src/src/lib/Parser/Parser.ts).                                  *)
(*                                                                         *)
(* cfg  = [strict, evaluateTags, lexerOptions]: the readonly fields.       *)
(* toks = the tokens the instance's lexer yields for the current input.    *)
(* p    = the mutable scan state: consumed (tokens already taken from the  *)
(*        iterator this.input), stack, reachedEof, currentPosition, err    *)
(*        (the exception in flight, NoError if none), calls (the resolver  *)
(*        invocations made so far) and tags (the parseTag calls so far).   *)
(* An operator that may throw returns p with err set; its callers return   *)
(* at once, as the exception unwinds them.                                 *)
(***************************************************************************)
TagStartOf(cfg) == LexerTagStart(cfg.lexerOptions)
TagEndOf(cfg) == LexerTagEnd(cfg.lexerOptions)

EofToken == [type |-> "Literal", value |-> <<>>, position |-> NoPosition]

TextNode(value) == [type |-> "Text", value |-> value]

NullArg == [type |-> "null"]

Threw(p) == p.err # NoError

\* mutant of NextToken: exhaustion throws whatever the mode
NextTokenAlwaysThrows(p, cfg, toks) ==
    IF Len(p.stack) > 0
    THEN [p |-> [p EXCEPT !.stack = DropLast(@, 1)], token |-> p.stack[Len(p.stack)]]
    ELSE IF p.consumed >= Len(toks)
    THEN [p |-> [p EXCEPT !.reachedEof = TRUE,
                          !.err = TagParseError(MsgEof, p.currentPosition)],
          token |-> EofToken]
    ELSE [p |-> [p EXCEPT !.consumed = @ + 1, !.reachedEof = FALSE,
                          !.currentPosition = toks[p.consumed + 1].position],
          token |-> toks[p.consumed + 1]]

\* mutant of NextToken: exhaustion in strict mode raises a StrictModeError
NextTokenStrictError(p, cfg, toks) ==
    IF Len(p.stack) > 0
    THEN [p |-> [p EXCEPT !.stack = DropLast(@, 1)], token |-> p.stack[Len(p.stack)]]
    ELSE IF p.consumed >= Len(toks)
    THEN IF cfg.strict
         THEN [p |-> [p EXCEPT !.reachedEof = TRUE,
                               !.err = StrictModeError(MsgEof, p.currentPosition)],
               token |-> EofToken]
         ELSE [p |-> [p EXCEPT !.reachedEof = TRUE], token |-> EofToken]
    ELSE [p |-> [p EXCEPT !.consumed = @ + 1, !.reachedEof = FALSE,
                          !.currentPosition = toks[p.consumed + 1].position],
          token |-> toks[p.consumed + 1]]

\* mutant of NextToken: exhaustion never throws, it always synthesises the
\* empty Literal token
NextTokenNeverThrows(p, cfg, toks) ==
    IF Len(p.stack) > 0
    THEN [p |-> [p EXCEPT !.stack = DropLast(@, 1)], token |-> p.stack[Len(p.stack)]]
    ELSE IF p.consumed >= Len(toks)
    THEN [p |-> [p EXCEPT !.reachedEof = TRUE], token |-> EofToken]
    ELSE [p |-> [p EXCEPT !.consumed = @ + 1, !.reachedEof = FALSE,
                          !.currentPosition = toks[p.consumed + 1].position],
          token |-> toks[p.consumed + 1]]

NextToken(p, cfg, toks) ==
    IF Len(p.stack) > 0
    THEN [p |-> [p EXCEPT !.stack = DropLast(@, 1)], token |-> p.stack[Len(p.stack)]]
    ELSE IF p.consumed >= Len(toks)
    THEN IF cfg.strict
         THEN [p |-> [p EXCEPT !.reachedEof = TRUE,
                               !.err = TagParseError(MsgEof, p.currentPosition)],
               token |-> EofToken]
         ELSE [p |-> [p EXCEPT !.reachedEof = TRUE], token |-> EofToken]
    ELSE LET value == toks[p.consumed + 1]
         IN [p |-> [p EXCEPT !.consumed = @ + 1,
                             !.reachedEof = FALSE,
                             !.currentPosition =
                                 IF value.position # NoPosition
                                 THEN value.position ELSE @],
             token |-> value]

RECURSIVE Skip(_, _, _, _)

\* the test of skip()'s do-while loop, on the token r just read
SkipWhile(r, cfg, toks, omitType) ==
    IF ~Threw(r.p) /\ r.token.type = omitType
    THEN Skip(r.p, cfg, toks, omitType)
    ELSE r

Skip(p, cfg, toks, omitType) == SkipWhile(NextToken(p, cfg, toks), cfg, toks, omitType)

RECURSIVE SerializeNodesToRaw(_, _)
SerializeNodesToRaw(list, cfg) ==
    IF Len(list) = 0 THEN <<>>
    ELSE LET node == Head(list)
             one == CASE node.type = "Text" -> node.value
                      [] node.type = "Variable" ->
                            TagStartOf(cfg) \o node.raw \o TagEndOf(cfg)
                      [] node.type = "Function" ->
                            TagStartOf(cfg) \o node.name \o <<":">>
                            \o JoinRaw([i \in 1..Len(node.args) |->
                                          SerializeNodesToRaw(node.args[i].nodes, cfg)],
                                       <<"|">>)
                            \o TagEndOf(cfg)
                      [] OTHER -> <<>>
         IN one \o SerializeNodesToRaw(Tail(list), cfg)

SerializeParsedNodeToRaw(node, cfg) == SerializeNodesToRaw(<<node>>, cfg)

\* node.value as a JavaScript value: the value of a Text node is a string
JsValueOf(node) == IF node.type = "Text" THEN JsString(node.value) ELSE node.value

\* mutant of FinalValueOfNode: String(value) whatever the type of the value
FinalValueOfNodeAnyType(node) ==
    IF "value" \in DOMAIN node THEN JsValueOf(node).text ELSE <<>>

\* what one child adds in the reduce of parseFunctionArguments: String(value)
\* when the child has a value whose typeof is string, number or boolean
FinalValueOfNode(node) ==
    IF "value" \in DOMAIN node
    THEN IF JsValueOf(node).typeof \in {"string", "number", "boolean"}
         THEN JsValueOf(node).text
         ELSE <<>>
    ELSE <<>>

\* the reduce over part.arg.nodes
RECURSIVE FinalValue(_)
FinalValue(list) ==
    IF Len(list) = 0 THEN <<>>
    ELSE FinalValueOfNode(Head(list)) \o FinalValue(Tail(list))

\* mutant of NameTokenError: the two checks in the other order, so a Space
\* is reported as a non-literal start
NameTokenErrorSwapped(nameToken) ==
    IF nameToken.type # "Literal"
    THEN StrictModeError(MsgLiteral, nameToken.position)
    ELSE NoError

\* the strict checks on the token after TagStart: the error thrown, if any
NameTokenError(nameToken) ==
    IF nameToken.type = "Space"
    THEN StrictModeError(MsgSpaces, nameToken.position)
    ELSE IF nameToken.type # "Literal"
    THEN StrictModeError(MsgLiteral, nameToken.position)
    ELSE NoError

\* mutant of UnexpectedTokenText: the start delimiter is not put back
UnexpectedTokenTextNoStart(cfg, name, nextToken) ==
    TextNode(name \o nextToken.value)

\* mutant of UnexpectedTokenText: the tag degrades to an empty Text node
UnexpectedTokenTextEmpty(cfg, name, nextToken) == TextNode(<<>>)

\* the Text node of the default branch of parseTag's switch
UnexpectedTokenText(cfg, name, nextToken) ==
    TextNode(TagStartOf(cfg) \o name \o nextToken.value)

RECURSIVE ParseTag(_, _, _)
RECURSIVE ParseFunctionArguments(_, _, _, _, _)
RECURSIVE ParseArgument(_, _, _, _, _, _)

\* what an operator returns for a node when the exception in p.err unwinds it
Thrown(p) == [p |-> p, node |-> TextNode(<<>>)]

\* parseTag reads its two tokens with nextToken() when strict, skip(Space) if not
ReadTagToken(p, cfg, toks) ==
    IF cfg.strict THEN NextToken(p, cfg, toks) ELSE Skip(p, cfg, toks, "Space")

\* parseTag, case Colon, after parseFunctionArguments() returned f
ParseTagFunction(f, name, nextToken, start, cfg) ==
    IF Threw(f.p) THEN Thrown(f.p)
    ELSE IF ~f.closed
    THEN [p |-> [f.p EXCEPT !.unclosed =
                   Append(@, [start |-> start,
                              value |-> TagStartOf(cfg) \o name \o <<":">> \o f.raw])],
          node |-> TextNode(TagStartOf(cfg) \o name \o <<":">> \o f.raw)]
    ELSE IF Len(f.args) = 0 /\ cfg.strict
    THEN Thrown([f.p EXCEPT !.err = StrictModeError(MsgNoArgs, nextToken.position)])
    ELSE IF cfg.evaluateTags
    THEN [p |-> [f.p EXCEPT !.calls = Append(@, <<"function", name>>)],
          node |-> FunctionTagParserParse(name, f.args)]
    ELSE [p |-> f.p, node |-> [type |-> "Function", name |-> name, args |-> f.args]]

\* parseTag from the second read on: rx is the read of nextToken; start is the
\* offset of the tag's TagStart token
ParseTagSwitch(rx, name, start, cfg, toks) ==
    IF Threw(rx.p) THEN Thrown(rx.p)
    ELSE IF cfg.strict /\ rx.token.type = "Space"
    THEN Thrown([rx.p EXCEPT !.err = StrictModeError(MsgSpaces, rx.token.position)])
    ELSE IF rx.token.type = "TagEnd"
    THEN IF name = <<>>
         THEN IF cfg.strict
              THEN Thrown([rx.p EXCEPT
                             !.err = StrictModeError(MsgEmpty, rx.token.position)])
              ELSE [p |-> [rx.p EXCEPT !.emptyName = TRUE], node |-> TextNode(<<>>)]
         ELSE IF cfg.evaluateTags
              THEN [p |-> [rx.p EXCEPT !.calls = Append(@, <<"variable", name>>)],
                    node |-> VariableTagParserParse(name)]
              ELSE [p |-> rx.p, node |-> [type |-> "Variable", raw |-> name]]
    ELSE IF rx.token.type = "Colon"
    THEN ParseTagFunction(ParseFunctionArguments(rx.p, cfg, toks, <<>>, <<>>),
                          name, rx.token, start, cfg)
    ELSE IF cfg.strict
    THEN Thrown([rx.p EXCEPT
                   !.err = StrictModeError(MsgUnexpected, rx.token.position)])
    ELSE [p |-> rx.p, node |-> UnexpectedTokenText(cfg, name, rx.token)]

\* parseTag after the first read: rn is the read of nameToken
ParseTagName(rn, start, cfg, toks) ==
    IF Threw(rn.p) THEN Thrown(rn.p)
    ELSE IF cfg.strict /\ NameTokenError(rn.token) # NoError
    THEN Thrown([rn.p EXCEPT !.err = NameTokenError(rn.token)])
    ELSE ParseTagSwitch(ReadTagToken(rn.p, cfg, toks), rn.token.value, start, cfg, toks)

\* parseTag(): [p, node].  It is called right after its TagStart token was
\* read, so p0.currentPosition is that token's position.
ParseTag(p0, cfg, toks) ==
    ParseTagName(ReadTagToken([p0 EXCEPT !.tags = @ + 1], cfg, toks),
                 p0.currentPosition.offset, cfg, toks)

\* mutant of EvaluatedArg: finalValue is set whether evaluation is on or not
EvaluatedArgAlways(arg, cfg) ==
    [type |-> "Argument", nodes |-> arg.nodes, finalValue |-> FinalValue(arg.nodes)]

\* part.arg with finalValue set when evaluation is on
EvaluatedArg(arg, cfg) ==
    IF cfg.evaluateTags
    THEN [type |-> "Argument", nodes |-> arg.nodes, finalValue |-> FinalValue(arg.nodes)]
    ELSE arg

\* args after the body of the loop handled part
ArgsWith(args0, part, cfg) ==
    IF part.arg # NullArg THEN Append(args0, EvaluatedArg(part.arg, cfg)) ELSE args0

\* one turn of parseFunctionArguments' loop, on the part parseArgument() returned
ParseFunctionArgumentsPart(part, cfg, toks, args0, raw0) ==
    IF Threw(part.p)
    THEN [p |-> part.p, args |-> args0, closed |-> FALSE, raw |-> raw0]
    ELSE IF part.endedWithTagEnd
    THEN [p |-> [part.p EXCEPT !.stack = DropLast(@, 1)],
          args |-> ArgsWith(args0, part, cfg), closed |-> TRUE,
          raw |-> raw0 \o part.raw]
    ELSE IF part.endedWithEof
    THEN [p |-> part.p, args |-> ArgsWith(args0, part, cfg), closed |-> FALSE,
          raw |-> raw0 \o part.raw]
    ELSE ParseFunctionArguments(part.p, cfg, toks, ArgsWith(args0, part, cfg),
                                raw0 \o part.raw)

\* parseFunctionArguments(), from the state of its while loop: [p, args, closed, raw]
ParseFunctionArguments(p0, cfg, toks, args0, raw0) ==
    ParseFunctionArgumentsPart(ParseArgument(p0, cfg, toks, <<>>, <<>>, <<>>),
                               cfg, toks, args0, raw0)

\* argNodes after the pending buffer, if any, is pushed as a Text node
WithBuffer(argNodes, buffer) ==
    IF Len(buffer) > 0 THEN Append(argNodes, TextNode(buffer)) ELSE argNodes

\* mutant of ArgumentResult: an empty segment becomes an Argument without nodes
ArgumentResultKeepsEmpty(p, argNodes, buffer, raw, endedWithTagEnd, endedWithEof) ==
    [p |-> p,
     arg |-> [type |-> "Argument", nodes |-> WithBuffer(argNodes, buffer)],
     raw |-> raw, endedWithTagEnd |-> endedWithTagEnd, endedWithEof |-> endedWithEof]

\* what parseArgument() returns after its loop
ArgumentResult(p, argNodes, buffer, raw, endedWithTagEnd, endedWithEof) ==
    [p |-> p,
     arg |-> IF Len(WithBuffer(argNodes, buffer)) > 0
             THEN [type |-> "Argument", nodes |-> WithBuffer(argNodes, buffer)]
             ELSE NullArg,
     raw |-> raw, endedWithTagEnd |-> endedWithTagEnd, endedWithEof |-> endedWithEof]

\* parseArgument, case TagStart not escaped, after parseTag() returned t
ParseArgumentNested(t, cfg, toks, argNodes, raw) ==
    IF Threw(t.p) THEN ArgumentResult(t.p, argNodes, <<>>, raw, FALSE, FALSE)
    ELSE ParseArgument(t.p, cfg, toks, Append(argNodes, t.node), <<>>,
                       raw \o SerializeParsedNodeToRaw(t.node, cfg))

\* one turn of parseArgument's loop, on the read r of its token
ParseArgumentToken(r, cfg, toks, argNodes, buffer, raw) ==
    IF Threw(r.p) THEN ArgumentResult(r.p, argNodes, buffer, raw, FALSE, FALSE)
    ELSE IF r.token.type \in {"Pipe", "TagEnd", "TagStart"} /\ EndsWithBackslash(buffer)
    THEN ParseArgument(r.p, cfg, toks, argNodes,
                       DropLast(buffer, 1) \o r.token.value, raw \o r.token.value)
    ELSE IF r.token.type = "Pipe"
    THEN ArgumentResult(r.p, argNodes, buffer, raw \o r.token.value, FALSE, FALSE)
    ELSE IF r.token.type = "TagEnd"
    THEN ArgumentResult([r.p EXCEPT !.stack = Append(@, r.token)], argNodes, buffer,
                        raw \o r.token.value, TRUE, FALSE)
    ELSE IF r.token.type = "TagStart"
    THEN ParseArgumentNested(ParseTag(r.p, cfg, toks), cfg, toks,
                             WithBuffer(argNodes, buffer), raw)
    ELSE IF r.token.type = "Literal" /\ r.token.value = <<>> /\ r.p.reachedEof
    THEN ArgumentResult(r.p, argNodes, buffer \o r.token.value,
                        raw \o r.token.value, FALSE, TRUE)
    ELSE ParseArgument(r.p, cfg, toks, argNodes,
                       buffer \o r.token.value, raw \o r.token.value)

\* parseArgument(), from the state of its while loop:
\* [p, arg, raw, endedWithTagEnd, endedWithEof]
ParseArgument(p0, cfg, toks, argNodes, buffer, raw) ==
    ParseArgumentToken(NextToken(p0, cfg, toks), cfg, toks, argNodes, buffer, raw)

\* pushTextNode(value) on the list this.nodes
PushTextNode(list, value) ==
    IF Len(list) > 0 /\ list[Len(list)].type = "Text"
    THEN [list EXCEPT ![Len(list)].value = @ \o value]
    ELSE Append(list, TextNode(value))

\* this.nodes after the pending buffer, if any, is pushed
Flushed(list, buffer) ==
    IF Len(buffer) > 0 THEN PushTextNode(list, buffer) ELSE list

RECURSIVE ParseLoop(_, _, _, _, _)

\* parse, the loop body on a TagStart token, after parseTag() returned t
ParseLoopTag(t, cfg, toks, list) ==
    IF Threw(t.p) THEN [p |-> t.p, nodes |-> list]
    ELSE IF t.node.type = "Text"
    THEN ParseLoop(t.p, cfg, toks, PushTextNode(list, t.node.value), <<>>)
    ELSE ParseLoop(t.p, cfg, toks, Append(list, t.node), <<>>)

\* mutant of ParseLoopToken: a start delimiter opens a tag whatever precedes it
ParseLoopTokenNoEscape(token, p, cfg, toks, list, buffer) ==
    IF token.type = "TagStart"
    THEN ParseLoopTag(ParseTag(p, cfg, toks), cfg, toks, Flushed(list, buffer))
    ELSE ParseLoop(p, cfg, toks, list, buffer \o token.value)

\* parse, the loop body on the token the iterator gave, p being the scan
\* state after currentPosition was updated
ParseLoopToken(token, p, cfg, toks, list, buffer) ==
    IF token.type = "TagStart"
    THEN IF Len(buffer) > 0 /\ EndsWithBackslash(buffer)
         THEN ParseLoop(p, cfg, toks, list, DropLast(buffer, 1) \o token.value)
         ELSE ParseLoopTag(ParseTag(p, cfg, toks), cfg, toks, Flushed(list, buffer))
    ELSE ParseLoop(p, cfg, toks, list, buffer \o token.value)

\* the for-of loop of parse() and the flush after it: [p, nodes]
ParseLoop(p0, cfg, toks, list, buffer) ==
    IF p0.consumed >= Len(toks)
    THEN [p |-> p0, nodes |-> Flushed(list, buffer)]
    ELSE ParseLoopToken(toks[p0.consumed + 1],
                        [p0 EXCEPT !.consumed = @ + 1,
                                   !.currentPosition =
                                       IF toks[p0.consumed + 1].position # NoPosition
                                       THEN toks[p0.consumed + 1].position ELSE @],
                        cfg, toks, list, buffer)

(***************************************************************************)
(* The instance and its calls.                                             *)
(***************************************************************************)
StartPosition == [line |-> 1, column |-> 1, offset |-> 0]

\* the field initialisers of a new Parser
NewInstance ==
    [nodes |-> 1, heap |-> << <<>> >>, stack |-> <<>>, reachedEof |-> FALSE,
     currentPosition |-> StartPosition, source |-> <<>>, consumed |-> 0]

\* mutant of ParseReset: this.nodes is emptied in place instead of replaced
ParseResetInPlace(inst, input) ==
    [nodes |-> inst.nodes,
     heap |-> [inst.heap EXCEPT ![inst.nodes] = <<>>],
     stack |-> <<>>,
     reachedEof |-> FALSE,
     currentPosition |-> StartPosition,
     source |-> input,
     consumed |-> 0]

\* the first five statements of parse(): a new array for this.nodes, an empty
\* stack, a cleared flag, the start position, a new lexer on the input
ParseReset(inst, input) ==
    [nodes |-> Len(inst.heap) + 1,
     heap |-> Append(inst.heap, <<>>),
     stack |-> <<>>,
     reachedEof |-> FALSE,
     currentPosition |-> StartPosition,
     source |-> input,
     consumed |-> 0]

\* the scan state a call starts from
ScanState(i1) ==
    [consumed |-> i1.consumed, stack |-> i1.stack,
     reachedEof |-> i1.reachedEof, currentPosition |-> i1.currentPosition,
     err |-> NoError, calls |-> <<>>, emptyName |-> FALSE, unclosed |-> <<>>,
     tags |-> 0]

\* the instance after the call, what the caller got, and what was observed
ParseOutcome(i1, r) ==
    [inst |-> [nodes |-> i1.nodes,
               heap |-> [i1.heap EXCEPT ![i1.nodes] = r.nodes],
               stack |-> r.p.stack,
               reachedEof |-> r.p.reachedEof,
               currentPosition |-> r.p.currentPosition,
               source |-> i1.source,
               consumed |-> r.p.consumed],
     out |-> [input |-> i1.source, threw |-> Threw(r.p), error |-> r.p.err,
              value |-> i1.nodes],
     trace |-> [calls |-> r.p.calls, emptyName |-> r.p.emptyName,
                unclosed |-> r.p.unclosed, tags |-> r.p.tags]]

\* parse() after its reset left the instance i1
ParseRun(i1, cfg) ==
    ParseOutcome(i1, ParseLoop(ScanState(i1), cfg,
                               Tokenize(i1.source, cfg.lexerOptions),
                               i1.heap[i1.nodes], <<>>))

\* parse(input) on an instance: the instance afterwards and the outcome
ParseOn(inst, cfg, input) == ParseRun(ParseReset(inst, input), cfg)

\* nothing observed yet
NoTrace == [calls |-> <<>>, emptyName |-> FALSE, unclosed |-> <<>>, tags |-> 0]

(***************************************************************************)
(* ParserAsync (src/unnamed/part_004).                                     *)
(*                                                                         *)
(* A call of parseAsync is a stack of frames, one per async function that  *)
(* has not returned; it runs from one await to the next.  The machine m    *)
(* of a running call holds the instance fields (inst), the arrays (heap),  *)
(* the generators (iters), the resolver log, the frames of the call, what  *)
(* it does next (pc), the value an await delivers (val), the exception the *)
(* awaited promise was rejected with (err, NoError if it was fulfilled)    *)
(* and its status: running, ready (a continuation is queued), waiting (a   *)
(* resolver has not settled), fulfilled or rejected.  A generator is       *)
(* [tokens, consumed, closed]: closed once a for-of loop was left by an    *)
(* exception, after which it gives no token.                               *)
(***************************************************************************)
NewAsyncInstance ==
    [nodes |-> 1, stack |-> <<>>, reachedEof |-> FALSE,
     currentPosition |-> StartPosition, input |-> 0]

\* parseAsync: its buffer and the generator its for-of loop iterates
MainFrame(iter) == [fn |-> "parseAsync", buffer |-> <<>>, iter |-> iter]

\* parseTag: at says which await it is suspended at
TagFrame(start) ==
    [fn |-> "parseTag", at |-> "none", name |-> <<>>, nextToken |-> EofToken,
     args |-> <<>>, start |-> start, end |-> 0]

NoPart ==
    [arg |-> NullArg, raw |-> <<>>, endedWithTagEnd |-> FALSE, endedWithEof |-> FALSE]

ArgumentsFrame ==
    [fn |-> "parseFunctionArguments", at |-> "parseArgument", args |-> <<>>,
     raw |-> <<>>, part |-> NoPart]

ArgumentFrame ==
    [fn |-> "parseArgument", argNodes |-> <<>>, buffer |-> <<>>, raw |-> <<>>]

Top(m) == m.frames[Len(m.frames)]
SetTop(m, f) == [m EXCEPT !.frames[Len(m.frames)] = f]
Goto(m, pc) == [m EXCEPT !.pc = pc]

\* the call of an async function: it runs at once, up to its first await
AsyncCall(m, f, pc) == [m EXCEPT !.frames = Append(@, f), !.pc = pc]

\* return v in an async function: its promise is fulfilled and the caller,
\* which awaits it, goes on in a later microtask
AsyncReturn(m, v) ==
    [m EXCEPT !.frames = DropLast(@, 1), !.val = v, !.pc = "resume",
              !.status = IF Len(m.frames) = 1 THEN "fulfilled" ELSE "ready"]

\* throw e in an async function: its promise is rejected and the caller,
\* which awaits it, goes on (throws in its turn) in a later microtask; the
\* throw that leaves parseAsync closes the generator of its for-of loop and
\* rejects the promise of the call
AsyncThrow(m, e) ==
    IF Len(m.frames) = 1
    THEN [m EXCEPT !.iters[Top(m).iter].closed = TRUE,
                   !.frames = <<>>, !.err = e, !.pc = "resume", !.status = "rejected"]
    ELSE [m EXCEPT !.frames = DropLast(@, 1), !.err = e, !.pc = "resume",
                   !.status = "ready"]

\* mutant of AsyncInvoke: the resolver is invoked and not awaited
AsyncInvokeNoAwait(m, tag, name, value) ==
    [m EXCEPT !.log = Append(@, [call |-> m.id, kind |-> "invoke", tag |-> tag,
                                 name |-> name, start |-> Top(m).start,
                                 end |-> m.inst.currentPosition.offset]),
              !.frames[Len(m.frames)].end = m.inst.currentPosition.offset,
              !.val = value, !.pc = "resume"]

\* await this.variableParser(name) / await this.functionParser(name, args):
\* the resolver is invoked and the call waits for value
AsyncInvoke(m, tag, name, value) ==
    [m EXCEPT !.log = Append(@, [call |-> m.id, kind |-> "invoke", tag |-> tag,
                                 name |-> name, start |-> Top(m).start,
                                 end |-> m.inst.currentPosition.offset]),
              !.frames[Len(m.frames)].end = m.inst.currentPosition.offset,
              !.val = value, !.pc = "resume", !.status = "waiting"]

\* the scan state nextToken() works on: the generator is this.input
ScanOf(m) ==
    [consumed |-> m.iters[m.inst.input].consumed, stack |-> m.inst.stack,
     reachedEof |-> m.inst.reachedEof, currentPosition |-> m.inst.currentPosition,
     err |-> NoError]

\* the tokens this.input gives: a closed generator gives no more
TokensOf(m) ==
    IF m.iters[m.inst.input].closed
    THEN SubSeq(m.iters[m.inst.input].tokens, 1, m.iters[m.inst.input].consumed)
    ELSE m.iters[m.inst.input].tokens

\* the machine after nextToken() / skip() left the scan state p
Scanned(m, p) ==
    [m EXCEPT !.iters[m.inst.input].consumed = p.consumed,
              !.inst.stack = p.stack,
              !.inst.reachedEof = p.reachedEof,
              !.inst.currentPosition = p.currentPosition]

\* parseTag from the second read on
AsyncTagSwitch(m, cfg, rx, name) ==
    IF Threw(rx.p) THEN AsyncThrow(Scanned(m, rx.p), rx.p.err)
    ELSE IF cfg.strict /\ rx.token.type = "Space"
    THEN AsyncThrow(Scanned(m, rx.p), StrictModeError(MsgSpaces, rx.token.position))
    ELSE IF rx.token.type = "TagEnd"
    THEN IF name = <<>>
         THEN IF cfg.strict
              THEN AsyncThrow(Scanned(m, rx.p),
                              StrictModeError(MsgEmpty, rx.token.position))
              ELSE AsyncReturn(Scanned(m, rx.p), TextNode(<<>>))
         ELSE IF ~cfg.evaluateTags
              THEN AsyncReturn(Scanned(m, rx.p), [type |-> "Variable", raw |-> name])
              ELSE AsyncInvoke(SetTop(Scanned(m, rx.p),
                                      [Top(m) EXCEPT !.at = "variableParser",
                                                     !.name = name]),
                               "variable", name, VariableParserFn(name))
    ELSE IF rx.token.type = "Colon"
    THEN AsyncCall(SetTop(Scanned(m, rx.p),
                          [Top(m) EXCEPT !.at = "parseFunctionArguments",
                                         !.name = name, !.nextToken = rx.token]),
                   ArgumentsFrame, "parseFunctionArguments")
    ELSE IF cfg.strict
    THEN AsyncThrow(Scanned(m, rx.p), StrictModeError(MsgUnexpected, rx.token.position))
    ELSE AsyncReturn(Scanned(m, rx.p), UnexpectedTokenText(cfg, name, rx.token))

\* parseTag after the first read
AsyncTagName(m, cfg, rn) ==
    IF Threw(rn.p) THEN AsyncThrow(Scanned(m, rn.p), rn.p.err)
    ELSE IF cfg.strict /\ NameTokenError(rn.token) # NoError
    THEN AsyncThrow(Scanned(m, rn.p), NameTokenError(rn.token))
    ELSE AsyncTagSwitch(m, cfg, ReadTagToken(rn.p, cfg, TokensOf(m)), rn.token.value)

\* parseTag up to its first await or its return
AsyncParseTag(m, cfg) == AsyncTagName(m, cfg, ReadTagToken(ScanOf(m), cfg, TokensOf(m)))

\* parseTag resumed with what parseFunctionArguments returned
AsyncTagArguments(m, cfg, f) ==
    IF ~f.closed
    THEN AsyncReturn(m, TextNode(TagStartOf(cfg) \o Top(m).name \o <<":">> \o f.raw))
    ELSE IF Len(f.args) = 0 /\ cfg.strict
    THEN AsyncThrow(m, StrictModeError(MsgNoArgs, Top(m).nextToken.position))
    ELSE IF ~cfg.evaluateTags
    THEN AsyncReturn(m, [type |-> "Function", name |-> Top(m).name, args |-> f.args])
    ELSE AsyncInvoke(SetTop(m, [Top(m) EXCEPT !.at = "functionParser", !.args = f.args]),
                     "function", Top(m).name, FunctionParserFn(Top(m).name, f.args))

\* what one node adds in resolveNodesToString: String(value ?? "")
AsyncFinalValueOfNode(node) ==
    IF "value" \in DOMAIN node
    THEN IF JsValueOf(node) \in {JsNull, JsUndefined} THEN <<>> ELSE JsValueOf(node).text
    ELSE <<>>

RECURSIVE ResolveNodesToString(_)
ResolveNodesToString(list) ==
    IF Len(list) = 0 THEN <<>>
    ELSE AsyncFinalValueOfNode(Head(list)) \o ResolveNodesToString(Tail(list))

\* parseFunctionArguments after part was handled: the two breaks, the pop
\* and the return, or the next turn of the loop
AsyncAfterPart(m, f, part) ==
    IF part.endedWithTagEnd
    THEN AsyncReturn([m EXCEPT !.inst.stack = DropLast(@, 1)],
                     [args |-> f.args, closed |-> TRUE, raw |-> f.raw])
    ELSE IF part.endedWithEof
    THEN AsyncReturn(m, [args |-> f.args, closed |-> FALSE, raw |-> f.raw])
    ELSE Goto(SetTop(m, [f EXCEPT !.at = "parseArgument"]), "parseFunctionArguments")

\* parseFunctionArguments resumed with the part parseArgument returned
AsyncArgumentsPart(m, cfg, part) ==
    IF part.arg # NullArg /\ cfg.evaluateTags
    THEN [SetTop(m, [Top(m) EXCEPT !.at = "resolveNodesToString", !.part = part,
                                   !.raw = @ \o part.raw])
            EXCEPT !.val = ResolveNodesToString(part.arg.nodes),
                   !.pc = "resume", !.status = "ready"]
    ELSE AsyncAfterPart(m,
                        [Top(m) EXCEPT !.raw = @ \o part.raw,
                                       !.args = IF part.arg # NullArg
                                                THEN Append(@, part.arg) ELSE @],
                        part)

\* parseFunctionArguments resumed with the text resolveNodesToString returned
AsyncArgumentsFinal(m, text) ==
    AsyncAfterPart(m,
                   [Top(m) EXCEPT !.args =
                        Append(@, [type |-> "Argument",
                                   nodes |-> Top(m).part.arg.nodes,
                                   finalValue |-> text])],
                   Top(m).part)

\* what parseArgument returns after its loop, from its frame
AsyncArgumentResult(f, endedWithTagEnd, endedWithEof) ==
    [arg |-> IF Len(WithBuffer(f.argNodes, f.buffer)) > 0
             THEN [type |-> "Argument", nodes |-> WithBuffer(f.argNodes, f.buffer)]
             ELSE NullArg,
     raw |-> f.raw, endedWithTagEnd |-> endedWithTagEnd, endedWithEof |-> endedWithEof]

\* one turn of parseArgument's loop, on the read r of its token
AsyncArgumentToken(m, cfg, r) ==
    IF Threw(r.p) THEN AsyncThrow(Scanned(m, r.p), r.p.err)
    ELSE IF r.token.type \in {"Pipe", "TagEnd", "TagStart"}
            /\ EndsWithBackslash(Top(m).buffer)
    THEN SetTop(Scanned(m, r.p),
                [Top(m) EXCEPT !.buffer = DropLast(@, 1) \o r.token.value,
                               !.raw = @ \o r.token.value])
    ELSE IF r.token.type = "Pipe"
    THEN AsyncReturn(Scanned(m, r.p),
                     AsyncArgumentResult([Top(m) EXCEPT !.raw = @ \o r.token.value],
                                         FALSE, FALSE))
    ELSE IF r.token.type = "TagEnd"
    THEN AsyncReturn([Scanned(m, r.p) EXCEPT !.inst.stack = Append(@, r.token)],
                     AsyncArgumentResult([Top(m) EXCEPT !.raw = @ \o r.token.value],
                                         TRUE, FALSE))
    ELSE IF r.token.type = "TagStart"
    THEN AsyncCall(SetTop(Scanned(m, r.p),
                          [Top(m) EXCEPT !.argNodes = WithBuffer(@, Top(m).buffer),
                                         !.buffer = <<>>,
                                         !.raw = @ \o r.token.value]),
                   TagFrame(r.p.currentPosition.offset), "parseTag")
    ELSE IF r.token.type = "Literal" /\ r.token.value = <<>> /\ r.p.reachedEof
    THEN AsyncReturn(Scanned(m, r.p),
                     AsyncArgumentResult([Top(m) EXCEPT !.buffer = @ \o r.token.value,
                                                        !.raw = @ \o r.token.value],
                                         FALSE, TRUE))
    ELSE SetTop(Scanned(m, r.p),
                [Top(m) EXCEPT !.buffer = @ \o r.token.value,
                               !.raw = @ \o r.token.value])

\* parseAsync resumed with the node parseTag returned
AsyncPushed(m, node) ==
    [m EXCEPT !.heap[m.inst.nodes] = IF node.type = "Text"
                                     THEN PushTextNode(@, node.value)
                                     ELSE Append(@, node),
              !.pc = "parseAsync"]

\* the body of parseAsync's loop on a token, after currentPosition was set
AsyncLoopToken(m, token) ==
    IF token.type = "TagStart"
    THEN IF Len(Top(m).buffer) > 0 /\ EndsWithBackslash(Top(m).buffer)
         THEN SetTop(m, [Top(m) EXCEPT !.buffer = DropLast(@, 1) \o token.value])
         ELSE AsyncCall(SetTop([m EXCEPT !.heap[m.inst.nodes] =
                                             Flushed(@, Top(m).buffer)],
                               [Top(m) EXCEPT !.buffer = <<>>]),
                        TagFrame(m.inst.currentPosition.offset), "parseTag")
    ELSE SetTop(m, [Top(m) EXCEPT !.buffer = @ \o token.value])

\* the token the loop's generator gives next
LoopToken(m) ==
    m.iters[Top(m).iter].tokens[m.iters[Top(m).iter].consumed + 1]

\* one turn of the for-of loop of parseAsync, or the flush and the return
AsyncLoop(m) ==
    IF m.iters[Top(m).iter].consumed >= Len(m.iters[Top(m).iter].tokens)
    THEN AsyncReturn([m EXCEPT !.heap[m.inst.nodes] = Flushed(@, Top(m).buffer)],
                     m.inst.nodes)
    ELSE AsyncLoopToken([m EXCEPT !.iters[Top(m).iter].consumed = @ + 1,
                                  !.inst.currentPosition =
                                      IF LoopToken(m).position # NoPosition
                                      THEN LoopToken(m).position ELSE @],
                        LoopToken(m))

\* a suspended function goes on with the value its await delivers, or
\* throws what the awaited promise was rejected with
AsyncResume(m, cfg) ==
    IF m.err # NoError THEN AsyncThrow(m, m.err)
    ELSE IF Top(m).fn = "parseAsync" THEN AsyncPushed(m, m.val)
    ELSE IF Top(m).fn = "parseArgument"
    THEN Goto(SetTop(m, [Top(m) EXCEPT !.argNodes = Append(@, m.val)]), "parseArgument")
    ELSE IF Top(m).fn = "parseFunctionArguments"
    THEN IF Top(m).at = "parseArgument"
         THEN AsyncArgumentsPart(m, cfg, m.val)
         ELSE AsyncArgumentsFinal(m, m.val)
    ELSE IF Top(m).at = "parseFunctionArguments"
    THEN AsyncTagArguments(m, cfg, m.val)
    ELSE IF Top(m).at = "variableParser"
    THEN AsyncReturn(m, [type |-> "Variable", raw |-> Top(m).name, value |-> m.val])
    ELSE AsyncReturn(m, [type |-> "Function", name |-> Top(m).name,
                         args |-> Top(m).args, value |-> m.val])

\* the next piece of synchronous code of the running call
AsyncMicro(m, cfg) ==
    IF m.pc = "parseAsync" THEN AsyncLoop(m)
    ELSE IF m.pc = "parseTag" THEN AsyncParseTag(m, cfg)
    ELSE IF m.pc = "parseFunctionArguments"
    THEN AsyncCall(m, ArgumentFrame, "parseArgument")
    ELSE IF m.pc = "parseArgument"
    THEN AsyncArgumentToken(m, cfg, NextToken(ScanOf(m), cfg, TokensOf(m)))
    ELSE AsyncResume(m, cfg)

\* the call runs until it is suspended or settled
RECURSIVE AsyncRun(_, _)
AsyncRun(m, cfg) ==
    IF m.status # "running" THEN m ELSE AsyncRun(AsyncMicro(m, cfg), cfg)

\* mutant of AsyncReset: the node list and the generator are kept
AsyncResetNothing(m, input, cfg) ==
    [m EXCEPT !.heap = IF m.inst.input = 0 THEN @ ELSE Append(@, <<>>),
              !.iters = Append(@, [tokens |-> Tokenize(input, cfg.lexerOptions),
                                   consumed |-> 0, closed |-> FALSE]),
              !.inst = [nodes |-> IF m.inst.input = 0 THEN 1 ELSE m.inst.nodes,
                        stack |-> <<>>, reachedEof |-> FALSE,
                        currentPosition |-> StartPosition,
                        input |-> Len(m.iters) + 1]]

\* the first five statements of parseAsync
AsyncReset(m, input, cfg) ==
    [m EXCEPT !.heap = Append(@, <<>>),
              !.iters = Append(@, [tokens |-> Tokenize(input, cfg.lexerOptions),
                                   consumed |-> 0, closed |-> FALSE]),
              !.inst = [nodes |-> Len(m.heap) + 1, stack |-> <<>>,
                        reachedEof |-> FALSE, currentPosition |-> StartPosition,
                        input |-> Len(m.iters) + 1]]

\* the machine of call id about to run on the shared state
AsyncMachine(inst, hp, iters, log, id, frames, val) ==
    [inst |-> inst, heap |-> hp, iters |-> iters, log |-> log, id |-> id,
     frames |-> frames, pc |-> "resume", val |-> val, err |-> NoError,
     status |-> "running"]

\* parseAsync(input) up to its first suspension
AsyncStarted(m, input, cfg) ==
    AsyncRun([AsyncReset(m, input, cfg) EXCEPT
                 !.frames = <<MainFrame(Len(m.iters) + 1)>>, !.pc = "parseAsync"],
             cfg)

\* the awaited resolver settles
AsyncSettled(m) ==
    [m EXCEPT !.log = Append(@, [call |-> m.id, kind |-> "settle",
                                 tag |-> IF Top(m).at = "variableParser"
                                         THEN "variable" ELSE "function",
                                 name |-> Top(m).name, start |-> Top(m).start,
                                 end |-> Top(m).end]),
              !.status = "ready"]

\* a call run alone to its end, the resolvers settling when awaited
RECURSIVE AsyncFinish(_, _)
AsyncFinish(m, cfg) ==
    IF m.status \in {"fulfilled", "rejected"} THEN m
    ELSE IF m.status = "waiting" THEN AsyncFinish(AsyncSettled(m), cfg)
    ELSE AsyncFinish(AsyncRun([m EXCEPT !.status = "running"], cfg), cfg)

\* parseAsync(input) alone on a new instance
AsyncAlone(input, cfg) ==
    AsyncFinish(AsyncStarted(AsyncMachine(NewAsyncInstance, << <<>> >>, <<>>, <<>>,
                                          1, <<>>, <<>>),
                             input, cfg),
                cfg)

\* what a settled call gave: did it reject, with what, and the list it
\* resolved to as it was then
AsyncOutcome(m) ==
    [threw |-> m.status = "rejected", error |-> m.err,
     value |-> IF m.status = "fulfilled" THEN m.heap[m.val] ELSE <<>>]

\* an option that was not given
Undefined == "undefined"

\* a ?? b
Nullish(a, b) == IF a # Undefined THEN a ELSE b

\* Boolean(v) of a boolean or undefined option
ToBoolean(v) == v = "true"

\* the message of the constructor's error, in pieces: the source sets
\* evaluateTags between two grave accents, written here as the code point
MsgResolvers ==
    <<"Function and variable parser functions must be provided when ",
      "U+0060", "evaluateTags", "U+0060", " is enabled">>

\* the option objects: a flag is true, false or not given; a resolver option
\* is given by its typeof
FlagOptions == {"true", "false", Undefined}
ResolverOptions == {"function", "string", Undefined}
AllOptions ==
    [strict : FlagOptions, evaluateTags : FlagOptions, parseTags : FlagOptions,
     functionParser : ResolverOptions, variableParser : ResolverOptions]

\* the options of a parser that has both resolvers and does not use the alias
PlainOptions ==
    {o \in AllOptions : /\ o.strict # Undefined
                        /\ o.evaluateTags # Undefined
                        /\ o.parseTags = Undefined
                        /\ o.functionParser = "function"
                        /\ o.variableParser = "function"}

\* this.evaluateTags as the constructor computes it
EvaluationRequested(o) == ToBoolean(Nullish(o.evaluateTags, o.parseTags))

\* mutant of ResolversMissing: one callable is enough
ResolversMissingBoth(o) ==
    o.functionParser # "function" /\ o.variableParser # "function"

\* the test under which the constructor throws when evaluation is on
ResolversMissing(o) ==
    o.functionParser # "function" \/ o.variableParser # "function"

\* new Parser(o): the readonly fields it assigns and how it ended
ParserNew(o) ==
    [strict |-> ToBoolean(o.strict),
     evaluateTags |-> EvaluationRequested(o),
     lexerOptions |-> DefaultLexerOptions,
     built |-> IF EvaluationRequested(o) /\ ResolversMissing(o)
               THEN [status |-> "threw",
                     error |-> RenderedError(MsgResolvers, NoPosition)]
               ELSE [status |-> "ok", error |-> NoError]]

\* the constructor has not run
NotBuilt == [status |-> "none", error |-> NoError]

Config == [strict |-> strict, evaluateTags |-> evaluateTags,
           lexerOptions |-> lexerOptions]

Instance == [nodes |-> nodes, heap |-> heap, stack |-> stack,
             reachedEof |-> reachedEof, currentPosition |-> currentPosition,
             source |-> source, consumed |-> consumed]

\* all texts of at most n code points
Texts(n) == UNION {[1..k -> Alphabet] : k \in 0..n}

Prefixes == {<<>>, <<"{", "a", ":">>, <<"{", "a", ":", "a">>, <<"a", "\n">>}

Examples ==
    { <<"{", "t", "a", "g", ":", "a", "r", "g", "1", "|", "a", "r", "g", "2">>,
      <<"{", "b", "a", "d", " ", "t", "a", "g", "}">>,
      <<"{", "o", "u", "t", "e", "r", ":", "a", "r", "g", "{", "i", "n", "n", "e", "r", "}">>,
      <<"{", "f", "u", "n", "c", " ", ":", "a", "r", "g", "}">>,
      <<"{", "t", "a", "g", "}">>,
      <<"{", " ", "a", " ", "}">>,
      <<"{", "a", ":", "{", "a", ":", "|", "}">>,
      <<"{", "t", "a", "g">>,
      <<"{", "t", "a", "g", ":", "}">>,
      <<"{", "f", "u", "n", "c", ":", "a", "|", "|", "b", "}">>,
      <<"\\", "{", "t", "a", "g", "}", " ", "h", "e", "r", "e", " ",
        "\\", "{", "f", "u", "n", "c", ":", "a", "r", "g", "}">>,
      <<"{", "s", "a", "y", ":", "h", "e", "l", "l", "o", " ",
        "{", "u", "s", "e", "r", "}", ".", "}">>,
      <<"{", "a", ":", "{", "a", "a", "}", "}">>,
      <<"{", "a", ":", "a", "{", "a", "\\", "}", "{", "\\", "}", "}">>,
      <<"{", "a", ":", "a", "{", "a", "a", ":", "a", "}", "{", "a", "a", "}", "}">> }

Inputs == {pre \o t : pre \in Prefixes, t \in Texts(MaxLen)} \cup Examples

ReuseAlphabet == {"{", "}", ":", "a"}

ReuseExamples ==
    { <<"{", "t", "a", "g", "}">>,
      <<"a", "{", "a", ":", "a">>,
      <<"{", "a", ":", "a", "|", "a", "}">>,
      <<"a", "{", "a", " ">> }

ReuseInputs == UNION {[1..k -> ReuseAlphabet] : k \in 0..MaxReuseLen} \cup ReuseExamples

(***************************************************************************)
(* Visitor (src/lib/Visitor.ts).                                           *)
(*                                                                         *)
(* A node of a tree is named by its path: <<i>> is the i-th node of the    *)
(* list handed to the walk, p \o <<j>> the j-th ArgumentNode of the        *)
(* Function node p, and q \o <<k>> the k-th node of the argument q.        *)
(* A visitor is [has, act, on, at]: has = the callbacks it defines; its    *)
(* callback of kind on (enter, the type callback, or leave) calls          *)
(* context.stop() or context.skipChildren() (act) when it is invoked for   *)
(* the node at path at; every callback it defines records its invocation.  *)
(* st = the TraversalState of the call plus that record (log).             *)
(***************************************************************************)
ArgumentNode(list) == [type |-> "Argument", nodes |-> list]

VariableNodeOf(raw) == [type |-> "Variable", raw |-> raw]

FunctionNodeOf(name, args) == [type |-> "Function", name |-> name, args |-> args]

CustomNode == [type |-> "Custom"]

VisitorCallbacks ==
    {"enter", "visitText", "visitVariable", "visitFunction", "visitArgument",
     "visit", "leave"}

CallbackKind(cb) == IF cb \in {"enter", "leave"} THEN cb ELSE "type"

NoControl == [has |-> VisitorCallbacks, act |-> "none", on |-> "enter", at |-> <<>>]

NewTraversalState == [stopped |-> FALSE, skipChildren |-> FALSE, log |-> <<>>]

\* what the callback cb of the visitor does with its context at the node path
ControlAt(visitor, cb, path) ==
    IF visitor.on = CallbackKind(cb) /\ visitor.at = path THEN visitor.act ELSE "none"

NoCall == [fn |-> "none", log |-> <<>>, count |-> 0]

\* createContext and one optional call visitor.cb?.(node, context)
InvokeCallback(st, visitor, cb, path) ==
    IF cb \notin visitor.has
    THEN st
    ELSE [stopped |-> st.stopped \/ ControlAt(visitor, cb, path) = "stop",
          skipChildren |-> st.skipChildren \/ ControlAt(visitor, cb, path) = "skipChildren",
          log |-> Append(st.log, [cb |-> cb, path |-> path,
                                  did |-> ControlAt(visitor, cb, path)])]

\* the callback visitNode dispatches to
TypeCallback(node) ==
    CASE node.type = "Text" -> "visitText"
      [] node.type = "Variable" -> "visitVariable"
      [] node.type = "Function" -> "visitFunction"
      [] node.type = "Argument" -> "visitArgument"
      [] OTHER -> "visit"

VisitNode(st, visitor, node, path) == InvokeCallback(st, visitor, TypeCallback(node), path)

RECURSIVE WalkNodes(_, _, _, _)
RECURSIVE WalkNodesDeep(_, _, _, _, _)
RECURSIVE VisitChildren(_, _, _, _)
RECURSIVE VisitArguments(_, _, _, _, _)

\* walkNodes after the type callback
WalkVisited(list, visitor, index, st) ==
    IF st.stopped
    THEN st
    ELSE WalkNodes(list, visitor, index + 1,
                   InvokeCallback(st, visitor, "leave", <<index>>))

\* walkNodes after enter
WalkEntered(list, visitor, index, st) ==
    IF st.stopped
    THEN st
    ELSE WalkVisited(list, visitor, index,
                     VisitNode(st, visitor, list[index], <<index>>))

\* walkNodes, from the node index on
WalkNodes(list, visitor, index, st) ==
    IF index > Len(list) \/ st.stopped
    THEN st
    ELSE WalkEntered(list, visitor, index,
             InvokeCallback([st EXCEPT !.skipChildren = FALSE], visitor, "enter", <<index>>))

\* mutant of VisitChildren: the walk does not descend
VisitChildrenNever(node, visitor, path, st) == st

\* visitChildren
VisitChildren(node, visitor, path, st) ==
    IF node.type = "Function"
    THEN VisitArguments(node.args, visitor, path, 1, st)
    ELSE st

\* walkNodesDeep after the children: leave, then the next node
WalkDeepLeave(list, visitor, prefix, index, st) ==
    WalkNodesDeep(list, visitor, prefix, index + 1,
                  InvokeCallback(st, visitor, "leave", Append(prefix, index)))

\* walkNodesDeep after the type callback
WalkDeepVisited(list, visitor, prefix, index, st) ==
    IF st.stopped
    THEN st
    ELSE WalkDeepLeave(list, visitor, prefix, index,
             IF ~st.skipChildren
             THEN VisitChildren(list[index], visitor, Append(prefix, index), st)
             ELSE st)

\* walkNodesDeep after enter
WalkDeepEntered(list, visitor, prefix, index, st) ==
    IF st.stopped
    THEN st
    ELSE WalkDeepVisited(list, visitor, prefix, index,
             VisitNode(st, visitor, list[index], Append(prefix, index)))

\* walkNodesDeep, from the node index of the list on
WalkNodesDeep(list, visitor, prefix, index, st) ==
    IF index > Len(list) \/ st.stopped
    THEN st
    ELSE WalkDeepEntered(list, visitor, prefix, index,
             InvokeCallback([st EXCEPT !.skipChildren = FALSE], visitor, "enter",
                            Append(prefix, index)))

\* the loop of visitChildren after the argument's nodes: leave, then the next
ArgumentLeave(args, visitor, path, j, st) ==
    VisitArguments(args, visitor, path, j + 1,
                   InvokeCallback(st, visitor, "leave", Append(path, j)))

\* the loop of visitChildren after visitArgument
ArgumentVisited(args, visitor, path, j, st) ==
    IF st.stopped
    THEN st
    ELSE ArgumentLeave(args, visitor, path, j,
             IF ~st.skipChildren
             THEN WalkNodesDeep(args[j].nodes, visitor, Append(path, j), 1, st)
             ELSE st)

\* the loop of visitChildren after enter
ArgumentEntered(args, visitor, path, j, st) ==
    IF st.stopped
    THEN st
    ELSE ArgumentVisited(args, visitor, path, j,
             InvokeCallback(st, visitor, "visitArgument", Append(path, j)))

\* the loop of visitChildren over funcNode.args, from the argument j on
VisitArguments(args, visitor, path, j, st) ==
    IF j > Len(args) \/ st.stopped
    THEN st
    ELSE ArgumentEntered(args, visitor, path, j,
             InvokeCallback(st, visitor, "enter", Append(path, j)))

walk(list, visitor) == WalkNodes(list, visitor, 1, NewTraversalState)

walkDeep(list, visitor) == WalkNodesDeep(list, visitor, <<>>, 1, NewTraversalState)

\* countNodes: the visitor defines enter only and counts its invocations
countNodes(list) ==
    Len(walkDeep(list, [NoControl EXCEPT !.has = {"enter"}]).log)

(***************************************************************************)
(* Transformer (src/lib/Transformer.ts).                                   *)
(*                                                                         *)
(* Nodes and arrays are objects of a heap, named by their index in it, so  *)
(* that a copy and the original are different things: a Function object    *)
(* holds the reference of its args array, an Argument object the reference *)
(* of its nodes array, an Array object the references of its elements.     *)
(* st = [heap, log, pass]: the heap, the record the transformers keep of   *)
(* the nodes they were offered, and the number of the running pass.        *)
(* Operators that allocate return [st, ref].                               *)
(***************************************************************************)
ArrayObject(items) == [type |-> "Array", items |-> items]

Alloc(st, object) ==
    [st |-> [st EXCEPT !.heap = Append(@, object)], ref |-> Len(st.heap) + 1]

\* the value an object stands for: the tree below it
RECURSIVE Decode(_, _)
Decode(objects, ref) ==
    CASE objects[ref].type = "Array" ->
             [i \in 1..Len(objects[ref].items) |-> Decode(objects, objects[ref].items[i])]
      [] objects[ref].type = "Function" ->
             [objects[ref] EXCEPT !.args = Decode(objects, @)]
      [] objects[ref].type = "Argument" ->
             [objects[ref] EXCEPT !.nodes = Decode(objects, @)]
      [] OTHER -> objects[ref]

\* the objects of a tree given as a value: [st, ref] with ref its array
RECURSIVE BuildArray(_, _, _, _)
BuildObject(st, value) ==
    CASE value.type = "Function" ->
             Alloc(BuildArray(st, value.args, 1, <<>>).st,
                   [value EXCEPT !.args = BuildArray(st, value.args, 1, <<>>).ref])
      [] value.type = "Argument" ->
             Alloc(BuildArray(st, value.nodes, 1, <<>>).st,
                   [value EXCEPT !.nodes = BuildArray(st, value.nodes, 1, <<>>).ref])
      [] OTHER -> Alloc(st, value)

BuildArray(st, values, i, refs) ==
    IF i > Len(values)
    THEN Alloc(st, ArrayObject(refs))
    ELSE BuildArray(BuildObject(st, values[i]).st, values, i + 1,
                    Append(refs, BuildObject(st, values[i]).ref))

\* what a transformer returns: null, a node or an array of nodes
Removed == [kind |-> "null", ref |-> 0]

OneNode(ref) == [kind |-> "node", ref |-> ref]

ManyNodes(ref) == [kind |-> "array", ref |-> ref]

Digit(n) == <<"0", "1", "2", "3", "4", "5", "6", "7", "8", "9">>[n + 1]

\* the number of nodes in the arguments of a Function object
RECURSIVE ChildCount(_, _, _)
ChildCount(objects, args, j) ==
    IF j > Len(objects[args].items)
    THEN 0
    ELSE Len(objects[objects[objects[args].items[j]].nodes].items)
         + ChildCount(objects, args, j + 1)

\* the transformers of the model; none of them changes the node it is given
TransformerNames ==
    {"keep", "dropText", "dropNested", "doubleVariable", "sizeOf",
     "firstArgument", "spreadArguments"}

\* transformer.transform(node, context), by name: [st, out]
TransformerBody(st, name, node, context) ==
    CASE name = "dropText" ->
             [st |-> st,
              out |-> IF st.heap[node].type = "Text" THEN Removed ELSE OneNode(node)]
      [] name = "dropNested" ->
             [st |-> st,
              out |-> IF context.depth > 0 /\ st.heap[node].type = "Text"
                      THEN Removed ELSE OneNode(node)]
      [] name = "doubleVariable" ->
             IF st.heap[node].type = "Variable"
             THEN [st |-> Alloc(st, ArrayObject(<<node, node>>)).st,
                   out |-> ManyNodes(Alloc(st, ArrayObject(<<node, node>>)).ref)]
             ELSE [st |-> st, out |-> OneNode(node)]
      [] name = "sizeOf" ->
             IF st.heap[node].type = "Function"
             THEN [st |-> Alloc(st, TextNode(<<Digit(ChildCount(st.heap, st.heap[node].args, 1))>>)).st,
                   out |-> OneNode(Len(st.heap) + 1)]
             ELSE [st |-> st, out |-> OneNode(node)]
      [] name = "firstArgument" ->
             [st |-> st,
              out |-> IF st.heap[node].type = "Function"
                      THEN IF Len(st.heap[st.heap[node].args].items) > 0
                           THEN ManyNodes(st.heap[st.heap[st.heap[node].args].items[1]].nodes)
                           ELSE Removed
                      ELSE OneNode(node)]
      [] name = "spreadArguments" ->
             [st |-> st,
              out |-> IF st.heap[node].type = "Function"
                      THEN ManyNodes(st.heap[node].args)
                      ELSE OneNode(node)]
      [] OTHER -> [st |-> st, out |-> OneNode(node)]

\* the nodes a returned value contributes to the result
Contribution(objects, out) ==
    CASE out.kind = "null" -> <<>>
      [] out.kind = "array" -> objects[out.ref].items
      [] OTHER -> <<out.ref>>

\* the transformer notes the node it was offered and what it returned
Noted(st, r, node, context) ==
    [st |-> [r.st EXCEPT !.log = Append(@,
                [pass |-> st.pass, node |-> node, depth |-> context.depth,
                 index |-> context.index, out |-> Contribution(r.st.heap, r.out)])],
     out |-> r.out]

\* transformer.transform(transformedNode, context)
CallTransformer(st, name, node, context) ==
    Noted(st, TransformerBody(st, name, node, context), node, context)

\* result.push(...) of transformNodes
PushResult(st, result, out) ==
    [st EXCEPT !.heap[result].items = @ \o Contribution(st.heap, out)]

\* mutant of CopyArgument: the argument is changed in place
ChangeArgument(st, arg, list) ==
    [st |-> [st EXCEPT !.heap[arg].nodes = list], ref |-> arg]

\* { ...arg, nodes: transformedArgNodes }
CopyArgument(st, arg, list) ==
    Alloc(st, [st.heap[arg] EXCEPT !.nodes = list])

\* { ...funcNode, args: transformedArgs }
CopyFunction(st, node, args) ==
    Alloc(st, [st.heap[node] EXCEPT !.args = args])

RECURSIVE TransformLoop(_, _, _, _, _, _)
RECURSIVE TransformChildren(_, _, _, _)
RECURSIVE MapArguments(_, _, _, _, _, _)

\* transformNodes: const result = [], then the loop
TransformNodes(st, list, name, depth) ==
    TransformLoop(Alloc(st, ArrayObject(<<>>)).st, list, name, depth, 1,
                  Alloc(st, ArrayObject(<<>>)).ref)

\* the loop of transformNodes after transformer.transform returned r
TransformPushed(list, name, depth, idx, result, r) ==
    TransformLoop(PushResult(r.st, result, r.out), list, name, depth, idx + 1, result)

\* the loop of transformNodes after transformChildren returned c
TransformOffered(list, name, depth, idx, result, c) ==
    TransformPushed(list, name, depth, idx, result,
        CallTransformer(c.st, name, c.ref, [depth |-> depth, index |-> idx - 1]))

\* the loop of transformNodes, from the node idx of the list on
TransformLoop(st, list, name, depth, idx, result) ==
    IF idx > Len(st.heap[list].items)
    THEN [st |-> st, ref |-> result]
    ELSE TransformOffered(list, name, depth, idx, result,
             TransformChildren(st, st.heap[list].items[idx], name, depth))

\* mutant of TransformChildren: the node is offered as it is
TransformChildrenNever(st, node, name, depth) == [st |-> st, ref |-> node]

\* funcNode.args.map: the argument j after its nodes were transformed into r
ArgumentMapped(node, name, depth, j, mapped, r) ==
    MapArguments(CopyArgument(r.st, r.st.heap[r.st.heap[node].args].items[j], r.ref).st,
                 node, name, depth, j + 1,
                 Append(mapped, CopyArgument(r.st, r.st.heap[r.st.heap[node].args].items[j], r.ref).ref))

\* funcNode.args.map, from the argument j on, then the copy of the node
MapArguments(st, node, name, depth, j, mapped) ==
    IF j > Len(st.heap[st.heap[node].args].items)
    THEN CopyFunction(Alloc(st, ArrayObject(mapped)).st, node,
                      Alloc(st, ArrayObject(mapped)).ref)
    ELSE ArgumentMapped(node, name, depth, j, mapped,
             TransformNodes(st, st.heap[st.heap[st.heap[node].args].items[j]].nodes,
                            name, depth + 1))

\* transformChildren of an ArgumentNode after its nodes were transformed
ArgumentTransformed(node, r) == CopyArgument(r.st, node, r.ref)

\* transformChildren
TransformChildren(st, node, name, depth) ==
    CASE st.heap[node].type = "Function" -> MapArguments(st, node, name, depth, 1, <<>>)
      [] st.heap[node].type = "Argument" ->
             ArgumentTransformed(node,
                 TransformNodes(st, st.heap[node].nodes, name, depth + 1))
      [] OTHER -> [st |-> st, ref |-> node]

\* transform: the loop over the transformers, from the i-th on
RECURSIVE TransformPasses(_, _, _)
TransformPasses(g, names, i) ==
    IF i > Len(names)
    THEN g
    ELSE TransformPasses(TransformNodes([g.st EXCEPT !.pass = i], g.ref, names[i], 0),
                         names, i + 1)

transform(st, list, names) == TransformPasses([st |-> st, ref |-> list], names, 1)

(***************************************************************************)
(* mergeAdjacentTextNodes (src/lib/transformers/index.ts).                 *)
(***************************************************************************)
\* the loop of mergeAdjacentTextNodes from the i-th node on, result being the
\* reference of the array it fills: a Text node that follows a Text node
\* at the end of result is appended to the value of that object, which is
\* an object of the input; every other node is pushed
RECURSIVE MergeLoop(_, _, _, _)
MergeLoop(objects, items, i, result) ==
    IF i > Len(items)
    THEN objects
    ELSE IF /\ objects[items[i]].type = "Text"
            /\ objects[result].items # <<>>
            /\ objects[objects[result].items[Len(objects[result].items)]].type = "Text"
    THEN MergeLoop([objects EXCEPT
                       ![objects[result].items[Len(objects[result].items)]].value =
                           @ \o objects[items[i]].value],
                   items, i + 1, result)
    ELSE MergeLoop([objects EXCEPT ![result].items = Append(@, items[i])],
                   items, i + 1, result)

\* mergeAdjacentTextNodes(nodes): [st, ref] with ref the array returned
mergeAdjacentTextNodes(st, list) ==
    [st |-> [st EXCEPT !.heap = MergeLoop(Alloc(st, ArrayObject(<<>>)).st.heap,
                                          st.heap[list].items, 1,
                                          Alloc(st, ArrayObject(<<>>)).ref)],
     ref |-> Alloc(st, ArrayObject(<<>>)).ref]

NoObjects == [heap |-> <<>>, log |-> <<>>, pass |-> 0]

NoTransform == [fn |-> "none", result |-> 0, log |-> <<>>]

\* no Lexer is iterated on its own
LexIdle ==
    /\ lInput = <<>>
    /\ lOptions = DefaultLexerOptions
    /\ lStream = StreamNew(<<>>)
    /\ lLexer = LexerNew
    /\ lAt = "loop"
    /\ lPending = <<>>
    /\ lDone = FALSE

\* no walk is made
WalkIdle ==
    /\ wNodes = <<>>
    /\ wVisitor = NoControl
    /\ wCall = NoCall

\* no transformation is made
TransIdle ==
    /\ tInput = [heap |-> <<ArrayObject(<<>>)>>, nodes |-> 1]
    /\ tHeap = tInput.heap
    /\ tTransformers = <<>>
    /\ tCall = NoTransform

LibIdle == LexIdle /\ WalkIdle /\ TransIdle

\* no call of parseAsync was made: the fields hold their initialisers
AsyncIdle ==
    /\ aInst = NewAsyncInstance
    /\ aHeap = << <<>> >>
    /\ aIters = <<>>
    /\ aCalls = <<>>
    /\ aLog = <<>>

Init ==
    /\ options \in PlainOptions
    /\ strict = ParserNew(options).strict
    /\ evaluateTags = ParserNew(options).evaluateTags
    /\ lexerOptions = ParserNew(options).lexerOptions
    /\ built = ParserNew(options).built
    /\ nodes = NewInstance.nodes
    /\ heap = NewInstance.heap
    /\ stack = NewInstance.stack
    /\ reachedEof = NewInstance.reachedEof
    /\ currentPosition = NewInstance.currentPosition
    /\ source = NewInstance.source
    /\ consumed = NewInstance.consumed
    /\ returned = <<>>
    /\ trace = NoTrace
    /\ AsyncIdle
    /\ LibIdle

\* one call parser.parse(input)
Parse(input) ==
    LET r == ParseOn(Instance, Config, input)
    IN /\ nodes' = r.inst.nodes
       /\ heap' = r.inst.heap
       /\ stack' = r.inst.stack
       /\ reachedEof' = r.inst.reachedEof
       /\ currentPosition' = r.inst.currentPosition
       /\ source' = r.inst.source
       /\ consumed' = r.inst.consumed
       /\ returned' = Append(returned, r.out)
       /\ trace' = r.trace
       /\ UNCHANGED <<strict, evaluateTags, lexerOptions, options, built>>
       /\ UNCHANGED asyncVars
       /\ UNCHANGED libVars

\* a first call on a new instance
ParseFirst == Len(returned) = 0 /\ \E input \in Inputs : Parse(input)

\* a call on an instance that may have parsed before
ParseAgain == Len(returned) < MaxCalls /\ \E input \in ReuseInputs : Parse(input)

Next == ParseFirst

Spec == Init /\ [][Next]_vars

NextReuse == ParseAgain

SpecReuse == Init /\ [][NextReuse]_vars

(***************************************************************************)
(* Construction: the machine starts before new Parser(options) runs.       *)
(***************************************************************************)
NewInputs ==
    { <<"{", "t", "a", "g", "}">>,
      <<"a", "{", "a", ":", "{", "a", "}", "}">>,
      <<"{", "a", ":", "a", "{", "a", "}", "|", "{", "a", ":", "a", "}", "}">> }

\* the fields hold their initialisers
InitNew ==
    /\ options \in AllOptions
    /\ strict = FALSE
    /\ evaluateTags = FALSE
    /\ lexerOptions = DefaultLexerOptions
    /\ built = NotBuilt
    /\ nodes = NewInstance.nodes
    /\ heap = NewInstance.heap
    /\ stack = NewInstance.stack
    /\ reachedEof = NewInstance.reachedEof
    /\ currentPosition = NewInstance.currentPosition
    /\ source = NewInstance.source
    /\ consumed = NewInstance.consumed
    /\ returned = <<>>
    /\ trace = NoTrace
    /\ AsyncIdle
    /\ LibIdle

\* new Parser(options)
New ==
    /\ built = NotBuilt
    /\ strict' = ParserNew(options).strict
    /\ evaluateTags' = ParserNew(options).evaluateTags
    /\ lexerOptions' = ParserNew(options).lexerOptions
    /\ built' = ParserNew(options).built
    /\ UNCHANGED <<nodes, heap, stack, reachedEof, currentPosition, source,
                   consumed, returned, trace, options>>
    /\ UNCHANGED asyncVars
    /\ UNCHANGED libVars

\* the first call on the parser the constructor returned
ParseNew ==
    /\ built.status = "ok"
    /\ Len(returned) = 0
    /\ \E input \in NewInputs : Parse(input)

NextNew == New \/ ParseNew

SpecNew == InitNew /\ [][NextNew]_vars

(***************************************************************************)
(* Calls of parseAsync on one ParserAsync instance.  A call starts, is     *)
(* resumed when a continuation of it is queued, and waits while a resolver *)
(* it awaits has not settled; calls interleave at these points only.       *)
(***************************************************************************)
AsyncInputs ==
    { <<"a">>,
      <<"{", "a", "}", "a">>,
      <<"{", "a", ":", "{", "a", "}", "}">>,
      <<"{", "a", ":", "{", "a", "}">>,
      <<"{", "a", ":", "a", "|", "{", "a", "}", "a", "}", "{", "a", "}">>,
      <<"{", "a">>,
      <<"{", "a", ":", "}">>,
      <<"a", "{", "a", "a", ":", "a", "}">>,
      <<"{", ":", "}">> }

InFlight(c) == aCalls[c].status \in {"ready", "waiting"}

\* the machine of call c on the instance as it is now
MachineOf(c) ==
    [AsyncMachine(aInst, aHeap, aIters, aLog, c, aCalls[c].frames, aCalls[c].val)
        EXCEPT !.err = aCalls[c].err]

\* the record of a call after it ran to m
CallRecord(old, m) ==
    [old EXCEPT !.frames = m.frames, !.val = m.val, !.err = m.err,
                !.status = m.status, !.value = AsyncOutcome(m).value]

NewCall(input) ==
    [input |-> input, own |-> Len(aHeap) + 1, frames |-> <<>>, val |-> <<>>,
     err |-> NoError, status |-> "running", value |-> <<>>,
     overlapped |-> \E c \in DOMAIN aCalls : InFlight(c),
     sawWaiting |-> \E c \in DOMAIN aCalls : aCalls[c].status = "waiting"]

\* the instance after the running call was suspended or settled
AsyncCommit(m) ==
    /\ aInst' = m.inst
    /\ aHeap' = m.heap
    /\ aIters' = m.iters
    /\ aLog' = m.log

\* parseAsync(input) is called and runs to its first suspension
StartAsync(input) ==
    /\ Len(aCalls) < MaxAsyncCalls
    /\ LET m == AsyncStarted(AsyncMachine(aInst, aHeap, aIters, aLog,
                                          Len(aCalls) + 1, <<>>, <<>>),
                             input, Config)
       IN /\ AsyncCommit(m)
          /\ aCalls' = Append([c \in DOMAIN aCalls |->
                                  [aCalls[c] EXCEPT !.overlapped = @ \/ InFlight(c)]],
                              CallRecord(NewCall(input), m))
    /\ UNCHANGED <<strict, evaluateTags, lexerOptions, options, built>>
    /\ UNCHANGED syncVars
    /\ UNCHANGED libVars

\* a queued continuation of call c runs
ResumeAsync(c) ==
    /\ aCalls[c].status = "ready"
    /\ LET m == AsyncRun(MachineOf(c), Config)
       IN /\ AsyncCommit(m)
          /\ aCalls' = [aCalls EXCEPT ![c] = CallRecord(@, m)]
    /\ UNCHANGED <<strict, evaluateTags, lexerOptions, options, built>>
    /\ UNCHANGED syncVars
    /\ UNCHANGED libVars

\* the resolver call c awaits settles
SettleAsync(c) ==
    /\ aCalls[c].status = "waiting"
    /\ aLog' = AsyncSettled(MachineOf(c)).log
    /\ aCalls' = [aCalls EXCEPT ![c].status = "ready"]
    /\ UNCHANGED <<aInst, aHeap, aIters>>
    /\ UNCHANGED <<strict, evaluateTags, lexerOptions, options, built>>
    /\ UNCHANGED syncVars
    /\ UNCHANGED libVars

StartSome == \E input \in AsyncInputs : StartAsync(input)
ResumeSome == \E c \in DOMAIN aCalls : ResumeAsync(c)
SettleSome == \E c \in DOMAIN aCalls : SettleAsync(c)

NextAsync == StartSome \/ ResumeSome \/ SettleSome

SpecAsync == Init /\ [][NextAsync]_vars

(***************************************************************************)
(* One Lexer iterated to its end: new Lexer(input, options) and then one   *)
(* step per turn of the loop of its iterator, that is per call of          *)
(* Stream.next().                                                          *)
(***************************************************************************)
LexAlphabet == {"a", "<", ">", ":", " ", "U+1F9EA", "\n"}

\* the delimiter options a Lexer is constructed with
LexOptionSet ==
    { [tagStart |-> <<>>, tagEnd |-> <<">">>],
      [tagStart |-> <<"U+1F9EA", "<">>, tagEnd |-> <<"U+1F9EA", ">">>],
      [tagStart |-> <<"<", "<">>, tagEnd |-> <<">", ">">>],
      [tagStart |-> <<":", "<">>, tagEnd |-> <<">">>],
      [tagStart |-> <<"<">>, tagEnd |-> <<"a", ":">>],
      [tagStart |-> <<"<">>, tagEnd |-> <<">", "<">>] }

LexExamples ==
    { <<"{", "a", "}">>,
      <<"a", "\n", "{", "b", "}">>,
      <<"U+1F9EA", "<", "a", "a", "U+1F9EA", ">">> }

LexInputs == UNION {[1..k -> LexAlphabet] : k \in 0..MaxLexLen} \cup LexExamples

\* new Lexer(input, options), nothing else in use
InitLex ==
    /\ options \in {o \in PlainOptions : o.strict = "false" /\ o.evaluateTags = "false"}
    /\ strict = ParserNew(options).strict
    /\ evaluateTags = ParserNew(options).evaluateTags
    /\ lexerOptions = ParserNew(options).lexerOptions
    /\ built = ParserNew(options).built
    /\ nodes = NewInstance.nodes
    /\ heap = NewInstance.heap
    /\ stack = NewInstance.stack
    /\ reachedEof = NewInstance.reachedEof
    /\ currentPosition = NewInstance.currentPosition
    /\ source = NewInstance.source
    /\ consumed = NewInstance.consumed
    /\ returned = <<>>
    /\ trace = NoTrace
    /\ AsyncIdle
    /\ WalkIdle
    /\ TransIdle
    /\ lInput \in LexInputs
    /\ lOptions \in LexOptionSet
    /\ lStream = StreamNew(lInput)
    /\ lLexer = LexerNew
    /\ lAt = "loop"
    /\ lPending = <<>>
    /\ lDone = FALSE

\* the tokens a turn of the loop pushes: none, the token of addToken, or
\* the Literal of its flush and then that token
Pushed(before, after) ==
    SubSeq(after.tokens, Len(before.tokens) + 1, Len(after.tokens))

\* the lexer at the first yield of a turn that pushes tokens: the generator
\* yields each token right after pushing it, and the buffer and its start
\* position have by then the values the turn leaves them with
AtFirstYield(before, after) ==
    [after EXCEPT !.tokens = SubSeq(@, 1, Len(before.tokens) + 1)]

\* a turn of the loop, stream.next() having returned true, up to the top of
\* the loop or to its first yield: the yield of addToken if the buffer was
\* empty, the yield of flush inside addToken otherwise
LexAdvance ==
    /\ lAt = "loop"
    /\ StreamNext(lStream).ok
    /\ lStream' = StreamNext(lStream).s
    /\ IF Len(Pushed(lLexer, LexTurn(StreamNext(lStream).s, lLexer, lOptions).lx)) = 2
       THEN /\ lLexer' = AtFirstYield(lLexer,
                              LexTurn(StreamNext(lStream).s, lLexer, lOptions).lx)
            /\ lPending' = Tail(Pushed(lLexer,
                              LexTurn(StreamNext(lStream).s, lLexer, lOptions).lx))
            /\ lAt' = "flush"
       ELSE /\ lLexer' = LexTurn(StreamNext(lStream).s, lLexer, lOptions).lx
            /\ UNCHANGED <<lPending, lAt>>
    /\ UNCHANGED <<lInput, lOptions, lDone>>
    /\ UNCHANGED <<strict, evaluateTags, lexerOptions, options, built>>
    /\ UNCHANGED <<syncVars, asyncVars, walkVars, transVars>>

\* addToken resumed after the yield of its flush: tokens.push(token), and
\* the yield of the token
LexPush ==
    /\ lAt = "flush"
    /\ lLexer' = [lLexer EXCEPT !.tokens = Append(@, Head(lPending))]
    /\ lPending' = Tail(lPending)
    /\ lAt' = "loop"
    /\ UNCHANGED <<lInput, lOptions, lStream, lDone>>
    /\ UNCHANGED <<strict, evaluateTags, lexerOptions, options, built>>
    /\ UNCHANGED <<syncVars, asyncVars, walkVars, transVars>>

\* stream.next() returned false: the loop ends and the buffer is flushed;
\* the flush of a buffer that is not empty yields its Literal
LexFinish ==
    /\ lAt = "loop"
    /\ ~StreamNext(lStream).ok
    /\ lStream' = StreamNext(lStream).s
    /\ lLexer' = Flush(lLexer)
    /\ lAt' = IF Len(lLexer.buffer) > 0 THEN "final" ELSE "end"
    /\ lDone' = (Len(lLexer.buffer) = 0)
    /\ UNCHANGED <<lInput, lOptions, lPending>>
    /\ UNCHANGED <<strict, evaluateTags, lexerOptions, options, built>>
    /\ UNCHANGED <<syncVars, asyncVars, walkVars, transVars>>

\* the generator resumed after the yield of the last flush: it returns
LexReturn ==
    /\ lAt = "final"
    /\ lAt' = "end"
    /\ lDone' = TRUE
    /\ UNCHANGED <<lInput, lOptions, lStream, lLexer, lPending>>
    /\ UNCHANGED <<strict, evaluateTags, lexerOptions, options, built>>
    /\ UNCHANGED <<syncVars, asyncVars, walkVars, transVars>>

NextLex == LexAdvance \/ LexPush \/ LexFinish \/ LexReturn

SpecLex == InitLex /\ [][NextLex]_vars

(***************************************************************************)
(* Walks: one list of nodes and one visitor; each action is one call of    *)
(* walk, walkDeep or countNodes on them.                                   *)
(***************************************************************************)
\* the paths of the nodes of a list, Argument nodes included
RECURSIVE PathsOfList(_, _)
PathsOfNode(node, path) ==
    {path} \cup
    (IF node.type = "Function"
     THEN UNION { {Append(path, j)} \cup PathsOfList(node.args[j].nodes, Append(path, j)) :
                  j \in 1..Len(node.args) }
     ELSE {})

PathsOfList(list, prefix) ==
    UNION { PathsOfNode(list[i], Append(prefix, i)) : i \in 1..Len(list) }

WalkTrees ==
    { <<>>,
      << TextNode(<<"a">>) >>,
      << VariableNodeOf(<<"v">>), CustomNode, TextNode(<<"a">>) >>,
      << FunctionNodeOf(<<"f">>, <<>>), TextNode(<<"a">>) >>,
      << FunctionNodeOf(<<"f">>, << ArgumentNode(<<>>),
                                    ArgumentNode(<< TextNode(<<"a">>) >>) >>) >>,
      << FunctionNodeOf(<<"f">>, << ArgumentNode(<< TextNode(<<"a">>) >>),
                                    ArgumentNode(<< VariableNodeOf(<<"v">>) >>) >>),
         TextNode(<<"b">>) >>,
      << TextNode(<<"a">>),
         FunctionNodeOf(<<"f">>,
             << ArgumentNode(<< TextNode(<<"b">>), VariableNodeOf(<<"v">>) >>),
                ArgumentNode(<< FunctionNodeOf(<<"g">>,
                                    << ArgumentNode(<< TextNode(<<"c">>) >>) >>),
                                TextNode(<<"d">>) >>) >>),
         TextNode(<<"e">>) >>,
      << FunctionNodeOf(<<"f">>,
             << ArgumentNode(<< FunctionNodeOf(<<"g">>,
                                    << ArgumentNode(<< VariableNodeOf(<<"v">>) >>) >>) >>),
                ArgumentNode(<< TextNode(<<"a">>) >>) >>),
         FunctionNodeOf(<<"h">>, << ArgumentNode(<< TextNode(<<"b">>) >>) >>) >> }

\* the visitors of the model: no control call, or one stop() or
\* skipChildren() in one callback of one node
VisitorsOf(list) ==
    {NoControl} \cup
    { [has |-> VisitorCallbacks, act |-> act, on |-> on, at |-> at] :
      act \in {"stop", "skipChildren"}, on \in {"enter", "type", "leave"},
      at \in PathsOfList(list, <<>>) }

InitWalk ==
    /\ options \in {o \in PlainOptions : o.strict = "false" /\ o.evaluateTags = "false"}
    /\ strict = ParserNew(options).strict
    /\ evaluateTags = ParserNew(options).evaluateTags
    /\ lexerOptions = ParserNew(options).lexerOptions
    /\ built = ParserNew(options).built
    /\ nodes = NewInstance.nodes
    /\ heap = NewInstance.heap
    /\ stack = NewInstance.stack
    /\ reachedEof = NewInstance.reachedEof
    /\ currentPosition = NewInstance.currentPosition
    /\ source = NewInstance.source
    /\ consumed = NewInstance.consumed
    /\ returned = <<>>
    /\ trace = NoTrace
    /\ AsyncIdle
    /\ LexIdle
    /\ TransIdle
    /\ wNodes \in WalkTrees
    /\ wVisitor \in VisitorsOf(wNodes)
    /\ wCall = NoCall

\* walk(wNodes, wVisitor)
Walk ==
    /\ wCall.fn = "none"
    /\ wCall' = [fn |-> "walk", log |-> walk(wNodes, wVisitor).log, count |-> 0]
    /\ UNCHANGED <<wNodes, wVisitor>>
    /\ UNCHANGED <<strict, evaluateTags, lexerOptions, options, built>>
    /\ UNCHANGED <<syncVars, asyncVars, lexVars, transVars>>

\* walkDeep(wNodes, wVisitor)
WalkDeep ==
    /\ wCall.fn = "none"
    /\ wCall' = [fn |-> "walkDeep", log |-> walkDeep(wNodes, wVisitor).log, count |-> 0]
    /\ UNCHANGED <<wNodes, wVisitor>>
    /\ UNCHANGED <<strict, evaluateTags, lexerOptions, options, built>>
    /\ UNCHANGED <<syncVars, asyncVars, lexVars, transVars>>

\* countNodes(wNodes)
CountNodes ==
    /\ wCall.fn = "none"
    /\ wCall' = [fn |-> "countNodes", log |-> <<>>, count |-> countNodes(wNodes)]
    /\ UNCHANGED <<wNodes, wVisitor>>
    /\ UNCHANGED <<strict, evaluateTags, lexerOptions, options, built>>
    /\ UNCHANGED <<syncVars, asyncVars, lexVars, transVars>>

NextWalk == Walk \/ WalkDeep \/ CountNodes

SpecWalk == InitWalk /\ [][NextWalk]_vars

(***************************************************************************)
(* Transformations: one list of nodes and one list of transformers; an     *)
(* action is one call of transform, or of mergeAdjacentTextNodes, on them. *)
(***************************************************************************)
\* the objects of a tree: [heap, nodes] with nodes the reference of its list
InputOf(tree) ==
    [heap |-> BuildArray(NoObjects, tree, 1, <<>>).st.heap,
     nodes |-> BuildArray(NoObjects, tree, 1, <<>>).ref]

TransformTrees ==
    WalkTrees \cup
        { << TextNode(<<"a">>), TextNode(<<"b">>) >>,
          << TextNode(<<"a">>), TextNode(<<"b">>), TextNode(<<"c">>),
             FunctionNodeOf(<<"f">>, << ArgumentNode(<< TextNode(<<"d">>),
                                                        TextNode(<<"e">>) >>) >>),
             TextNode(<<"g">>), VariableNodeOf(<<"v">>), TextNode(<<"h">>) >> }

TransformerLists == UNION {[1..k -> TransformerNames] : k \in 0..MaxTransformers}

InitTransform ==
    /\ options \in {o \in PlainOptions : o.strict = "false" /\ o.evaluateTags = "false"}
    /\ strict = ParserNew(options).strict
    /\ evaluateTags = ParserNew(options).evaluateTags
    /\ lexerOptions = ParserNew(options).lexerOptions
    /\ built = ParserNew(options).built
    /\ nodes = NewInstance.nodes
    /\ heap = NewInstance.heap
    /\ stack = NewInstance.stack
    /\ reachedEof = NewInstance.reachedEof
    /\ currentPosition = NewInstance.currentPosition
    /\ source = NewInstance.source
    /\ consumed = NewInstance.consumed
    /\ returned = <<>>
    /\ trace = NoTrace
    /\ AsyncIdle
    /\ LexIdle
    /\ WalkIdle
    /\ tInput \in {InputOf(tree) : tree \in TransformTrees}
    /\ tHeap = tInput.heap
    /\ tTransformers \in TransformerLists
    /\ tCall = NoTransform

\* transform(nodes, transformers) on the objects as they are now
Transformed ==
    transform([heap |-> tHeap, log |-> <<>>, pass |-> 0], tInput.nodes, tTransformers)

\* one call of transform
Transform ==
    /\ tCall.fn = "none"
    /\ tHeap' = Transformed.st.heap
    /\ tCall' = [fn |-> "transform", result |-> Transformed.ref, log |-> Transformed.st.log]
    /\ UNCHANGED <<tInput, tTransformers>>
    /\ UNCHANGED <<strict, evaluateTags, lexerOptions, options, built>>
    /\ UNCHANGED <<syncVars, asyncVars, lexVars, walkVars>>

\* mergeAdjacentTextNodes(nodes) on the objects as they are now
Merged == mergeAdjacentTextNodes([heap |-> tHeap, log |-> <<>>, pass |-> 0], tInput.nodes)

\* one call of mergeAdjacentTextNodes
MergeAdjacentTextNodes ==
    /\ tCall.fn = "none"
    /\ tHeap' = Merged.st.heap
    /\ tCall' = [fn |-> "mergeAdjacentTextNodes", result |-> Merged.ref, log |-> <<>>]
    /\ UNCHANGED <<tInput, tTransformers>>
    /\ UNCHANGED <<strict, evaluateTags, lexerOptions, options, built>>
    /\ UNCHANGED <<syncVars, asyncVars, lexVars, walkVars>>

NextTransform == Transform \/ MergeAdjacentTextNodes

SpecTransform == InitTransform /\ [][NextTransform]_vars

(***************************************************************************)
(* Properties.                                                             *)
(***************************************************************************)
Called == Len(returned) > 0

\* the last call: its record, its input, the list it returned
Last == returned[Len(returned)]
LastInput == Last.input
Result == heap[Last.value]

\* the tokens of the last input
LastTokens == Tokenize(LastInput, lexerOptions)

ExUnterminated ==
    <<"{", "t", "a", "g", ":", "a", "r", "g", "1", "|", "a", "r", "g", "2">>
ExBadTag == <<"{", "b", "a", "d", " ", "t", "a", "g", "}">>
ExFuncSpace == <<"{", "f", "u", "n", "c", " ", ":", "a", "r", "g", "}">>
ExEmptyTag == <<"{", "}">>

\* C1: with strict = false (evaluation off, or on with resolvers that do not
\* throw) every call of parse returns a node list; none raises an error.
C1_NonStrictNeverThrows ==
    ~strict =>
        \A i \in 1..Len(returned) :
            /\ ~returned[i].threw
            /\ returned[i].error = NoError
            /\ returned[i].value \in DOMAIN heap

\* C1 witness: a non-strict call on an unterminated argument list returned.
C1_Witness ==
    /\ Called /\ ~strict /\ evaluateTags
    /\ LastInput = <<"{", "a", ":", "a", "|">>
    /\ ~Last.threw

\* C2 as claimed: the unterminated function tag of the example degrades to one
\* Text node and does not throw, whether strict or not.
C2_AsClaimed ==
    (Called /\ LastInput = ExUnterminated) =>
        (~Last.threw /\ Result = <<TextNode(ExUnterminated)>>)

\* C2 amended: in non-strict mode a function tag whose argument scan reaches
\* the end of input degrades to literal text and the call returns (the example
\* gives one Text node equal to the input); in strict mode the scan's
\* nextToken() raises TagParseError "Unexpected end of input" and the
\* unclosed branch of parseTag is never taken.
C2_UnterminatedFunction ==
    Called =>
        /\ (~strict /\ LastInput = ExUnterminated) =>
               (~Last.threw /\ Result = <<TextNode(ExUnterminated)>>)
        /\ (strict /\ LastInput = ExUnterminated) =>
               (/\ Last.threw
                /\ Last.error.name = "TagParseError"
                /\ Last.error.message[1] = MsgEof)
        /\ strict => trace.unclosed = <<>>
        /\ (~strict /\ trace.unclosed # <<>>) =>
               (/\ ~Last.threw
                /\ Len(Result) > 0
                /\ Result[Len(Result)].type = "Text"
                /\ EndsWith(Result[Len(Result)].value,
                            trace.unclosed[Len(trace.unclosed)].value))

\* C2 witness: the strict call on the example threw at the end of input.
C2_Witness ==
    /\ Called /\ strict
    /\ LastInput = ExUnterminated
    /\ Last.threw /\ Last.error.message[1] = MsgEof

\* C3: in non-strict mode the Text node of a function tag that is never closed
\* is the input from the tag's start delimiter to the end of input, verbatim.
C3_UnclosedVerbatim ==
    (Called /\ ~strict) =>
        \A i \in 1..Len(trace.unclosed) :
            trace.unclosed[i].value =
                SubSeq(LastInput, trace.unclosed[i].start + 1, Len(LastInput))

\* C4 as claimed: every text without a delimiter, the empty one included,
\* parses to exactly one Text node holding it.
C4_AsClaimed ==
    (Called /\ ~strict /\ ~evaluateTags
        /\ \A i \in 1..Len(LastInput) : LastInput[i] \notin {"{", "}"}) =>
        (~Last.threw /\ Result = <<TextNode(LastInput)>>)

\* C4 amended: every non-empty text without a delimiter parses to exactly one
\* Text node holding it; the empty text parses to the empty list.
C4_PlainTextIdentity ==
    (Called /\ ~strict /\ ~evaluateTags
        /\ \A i \in 1..Len(LastInput) : LastInput[i] \notin {"{", "}"}) =>
        /\ ~Last.threw
        /\ Len(LastInput) > 0 => Result = <<TextNode(LastInput)>>
        /\ Len(LastInput) = 0 => Result = <<>>

\* C4 witness: a text of a space, a colon, a pipe and a backslash came back as
\* one Text node.
C4_Witness ==
    /\ Called /\ ~strict /\ ~evaluateTags
    /\ LastInput = <<" ", ":", "|", "\\">>
    /\ Result = <<TextNode(LastInput)>>

RECURSIVE AdjacentTextIn(_)
AdjacentTextIn(list) ==
    \/ \E i \in 1..(Len(list) - 1) : list[i].type = "Text" /\ list[i + 1].type = "Text"
    \/ \E i \in 1..Len(list) :
          /\ list[i].type = "Function"
          /\ \E j \in 1..Len(list[i].args) : AdjacentTextIn(list[i].args[j].nodes)

\* C5: no two Text nodes are adjacent siblings in the returned tree, at the
\* top level or in the node list of any argument.
C5_NoAdjacentText ==
    (Called /\ ~Last.threw) => ~AdjacentTextIn(Result)

\* the outcome of the same call on a new instance with the same options
FreshOutcome(input) == ParseOn(NewInstance, Config, input)

\* C6: every call on one instance returns (or throws) what a new instance with
\* the same options returns for that input, leaves the scan state a new
\* instance would be left in, and no list returned earlier is changed by a
\* later call.
C6_NoStateLeak ==
    /\ \A i \in 1..Len(returned) :
          LET f == FreshOutcome(returned[i].input)
          IN /\ returned[i].threw = f.out.threw
             /\ returned[i].error = f.out.error
             /\ ~returned[i].threw => heap[returned[i].value] = f.inst.heap[f.out.value]
    /\ Called =>
          LET f == FreshOutcome(LastInput)
          IN /\ stack = f.inst.stack
             /\ reachedEof = f.inst.reachedEof
             /\ currentPosition = f.inst.currentPosition
             /\ consumed = f.inst.consumed
             /\ heap[nodes] = f.inst.heap[f.inst.nodes]

\* C6 witness: a strict call threw in the middle of a tag, after a Text node
\* was pushed, and the next call on the instance returned a Variable node.
C6_Witness ==
    /\ Len(returned) = 2 /\ strict
    /\ returned[1].input = <<"a", "{", "a", ":", "a">>
    /\ returned[1].threw
    /\ heap[returned[1].value] # <<>>
    /\ returned[2].input = <<"{", "t", "a", "g", "}">>
    /\ ~returned[2].threw
    /\ heap[returned[2].value] = <<[type |-> "Variable", raw |-> <<"t", "a", "g">>]>>

\* C7: in non-strict mode "{}" parses to exactly one Text node with value "{}".
C7_EmptyTagKept ==
    (Called /\ ~strict /\ LastInput = ExEmptyTag) =>
        (~Last.threw /\ Result = <<TextNode(<<"{", "}">>)>>)

\* C7 witness: the non-strict call on "{}" returned the Text node "{}".
C7_Witness ==
    /\ Called /\ ~strict /\ ~evaluateTags
    /\ LastInput = ExEmptyTag
    /\ Result = <<TextNode(ExEmptyTag)>>

\* C8 as claimed: in non-strict mode "{}" parses to a Text node with value "".
C8_AsClaimed ==
    (Called /\ ~strict /\ LastInput = ExEmptyTag) =>
        (Len(Result) = 1 /\ Result[1] = TextNode(<<>>))

RECURSIVE EmptyTextIn(_)
EmptyTextIn(list) ==
    \E i \in 1..Len(list) :
        \/ list[i].type = "Text" /\ list[i].value = <<>>
        \/ /\ list[i].type = "Function"
           /\ \E j \in 1..Len(list[i].args) : EmptyTextIn(list[i].args[j].nodes)

\* C8 amended: in non-strict mode the empty-name branch of parseTag is never
\* taken and no Text node of the result is empty: in "{}" the tag-end
\* delimiter is read as the name and the end of input as the token after it,
\* so the tag degrades to text that keeps both delimiters.
C8_DelimitersKept ==
    (Called /\ ~strict) =>
        /\ ~trace.emptyName
        /\ ~EmptyTextIn(Result)
        /\ LastInput = ExEmptyTag =>
              (Len(Result) = 1 /\ Result[1].type = "Text"
                /\ Result[1].value = TagStartOf(Config) \o TagEndOf(Config))

\* C8 witness: two empty tags in a row came back as the text "{}{}".
C8_Witness ==
    /\ Called /\ ~strict
    /\ LastInput = <<"{", "}", "{", "}">>
    /\ Result = <<TextNode(<<"{", "}", "{", "}">>)>>

\* is the TagStart token toks[k] escaped by a backslash at the top level
EscapedAt(toks, k) ==
    /\ k > 1
    /\ toks[k - 1].type = "Literal"
    /\ EndsWithBackslash(toks[k - 1].value)

\* the indices of the unescaped TagStart tokens
OpenTags(toks) == {k \in 1..Len(toks) : toks[k].type = "TagStart" /\ ~EscapedAt(toks, k)}

Min(S) == CHOOSE x \in S : \A y \in S : x <= y
Max(S) == CHOOSE x \in S : \A y \in S : x >= y

IsStrictError(e, message, position) ==
    /\ e.name = "StrictModeError"
    /\ e.message[1] = message
    /\ e.position = position

\* C9: at the first tag of the input, strict mode raises the spaces error for
\* a Space right after TagStart, the must-start-with-a-literal error for any
\* other non-Literal token there, and the spaces error for a Space right
\* after the name; non-strict mode raises nothing for the same tokens and
\* skips the spaces.
C9_StrictNameChecks ==
    (Called /\ OpenTags(LastTokens) # {}) =>
        LET toks == LastTokens
            k == Min(OpenTags(toks))
            n == Len(toks)
        IN /\ (strict /\ k + 1 <= n /\ toks[k + 1].type = "Space") =>
                  (Last.threw /\ IsStrictError(Last.error, MsgSpaces, toks[k + 1].position))
           /\ (strict /\ k + 1 <= n /\ toks[k + 1].type \notin {"Space", "Literal"}) =>
                  (Last.threw /\ IsStrictError(Last.error, MsgLiteral, toks[k + 1].position))
           /\ (strict /\ k + 2 <= n /\ toks[k + 1].type = "Literal"
                  /\ toks[k + 2].type = "Space") =>
                  (Last.threw /\ IsStrictError(Last.error, MsgSpaces, toks[k + 2].position))
           /\ ~strict => ~Last.threw
           /\ (~strict /\ ~evaluateTags /\ LastInput = <<"{", " ", "a", " ", "}">>) =>
                  Result = <<[type |-> "Variable", raw |-> <<"a">>]>>

\* C9 witness: the strict call on "{func :arg}" raised the spaces error at the
\* Space after the name.
C9_Witness ==
    /\ Called /\ strict
    /\ LastInput = ExFuncSpace
    /\ Last.threw
    /\ IsStrictError(Last.error, MsgSpaces, [line |-> 1, column |-> 6, offset |-> 5])

\* the position of the code point at 0-based offset off of input, counted
\* from the text itself
NewlinesBefore(input, off) == {i \in 1..off : input[i] = "\n"}
PositionAt(input, off) ==
    [line |-> 1 + Cardinality(NewlinesBefore(input, off)),
     column |-> IF NewlinesBefore(input, off) = {} THEN off + 1
                ELSE off - Max(NewlinesBefore(input, off)) + 1,
     offset |-> off]

RECURSIVE OffsetOfToken(_, _)
OffsetOfToken(toks, k) ==
    IF k <= 1 THEN 0 ELSE OffsetOfToken(toks, k - 1) + Len(toks[k - 1].value)

\* may the error e have been raised for the token toks[k]
Blames(e, toks, k) ==
    LET text == e.message[1]
        type == toks[k].type
    IN CASE text = MsgSpaces -> e.name = "StrictModeError" /\ type = "Space"
         [] text = MsgLiteral ->
                e.name = "StrictModeError" /\ type \notin {"Space", "Literal"}
         [] text = MsgUnexpected ->
                e.name = "StrictModeError" /\ type \notin {"Space", "TagEnd", "Colon"}
         [] text = MsgNoArgs -> e.name = "StrictModeError" /\ type = "Colon"
         [] text = MsgEof -> e.name = "TagParseError" /\ k = Len(toks)
         [] OTHER -> FALSE

\* C10: an error raised by a strict parse carries the 1-based line, 1-based
\* column and 0-based offset of the token it is raised for (for the end of
\* input, the last token read), and its message is the fixed text followed by
\* " at line L, column C" for that position; "{bad tag}" fails at 1:5, offset 4.
C10_ErrorPosition ==
    (Called /\ Last.threw) =>
        /\ strict
        /\ \E k \in 1..Len(LastTokens) :
              LET pos == PositionAt(LastInput, OffsetOfToken(LastTokens, k))
              IN /\ Blames(Last.error, LastTokens, k)
                 /\ Last.error.position = pos
                 /\ Last.error.message =
                        <<Last.error.message[1], " at line ", pos.line,
                          ", column ", pos.column>>
        /\ LastInput = ExBadTag =>
              Last.error.position = [line |-> 1, column |-> 5, offset |-> 4]

\* C10 witness: an error raised on the second line carries line 2.
C10_Witness ==
    /\ Called /\ strict /\ Last.threw
    /\ LastInput = <<"a", "\n", "{", "a", " ">>
    /\ Last.error.position = [line |-> 2, column |-> 3, offset |-> 4]
    /\ Last.error.message = <<MsgSpaces, " at line ", 2, ", column ", 3>>

ExUnclosedTag == <<"{", "t", "a", "g">>

\* the position of the last token of the last input
LastTokenPosition ==
    PositionAt(LastInput, OffsetOfToken(LastTokens, Len(LastTokens)))

\* the messages of the strict syntax violations: a space in the tag, an empty
\* tag (no literal after the start delimiter, or no name), a missing
\* argument, an unexpected token
StrictMessages == {MsgSpaces, MsgLiteral, MsgEmpty, MsgNoArgs, MsgUnexpected}

\* C11: in strict mode a read at the end of the tokens raises a TagParseError
\* that is not a StrictModeError, with message "Unexpected end of input" and
\* the position of the last token read; a TagParseError raised by parse is
\* always this one, and a StrictModeError always carries one of the messages
\* of the strict syntax violations; "{tag" fails at line 1, column 2.
C11_EndOfInputError ==
    Called =>
        /\ (strict /\ reachedEof) =>
               (/\ Last.threw
                /\ Last.error.name = "TagParseError"
                /\ Last.error.message[1] = MsgEof)
        /\ (Last.threw /\ Last.error.name = "TagParseError") =>
               (/\ strict /\ reachedEof
                /\ Last.error.message[1] = MsgEof
                /\ Len(LastTokens) > 0
                /\ Last.error.position = LastTokenPosition)
        /\ (Last.threw /\ Last.error.name # "TagParseError") =>
               (/\ Last.error.name = "StrictModeError"
                /\ Last.error.message[1] \in StrictMessages
                /\ ~reachedEof)
        /\ (strict /\ LastInput = ExUnclosedTag) =>
               (/\ Last.threw
                /\ Last.error.name = "TagParseError"
                /\ Last.error.message =
                       <<MsgEof, " at line ", 1, ", column ", 2>>)

\* C11 witness: the strict call on "{tag" raised the plain TagParseError at
\* the position of the name.
C11_Witness ==
    /\ Called /\ strict
    /\ LastInput = ExUnclosedTag
    /\ Last.threw
    /\ Last.error.name = "TagParseError"
    /\ Last.error.position = [line |-> 1, column |-> 2, offset |-> 1]

ExNoArgs == <<"{", "t", "a", "g", ":", "}">>
ExEmptySegment == <<"{", "f", "u", "n", "c", ":", "a", "|", "|", "b", "}">>

\* the inputs of one closed function tag named a whose segments are all empty
OnlyEmptySegments ==
    { <<"{", "a", ":", "}">>, <<"{", "a", ":", "|", "}">>,
      <<"{", "a", ":", "|", "|", "}">>, <<"{", "a", ":", "|", "|", "|", "}">> }

\* is there a Function node with an Argument that has no nodes
RECURSIVE EmptyArgIn(_)
EmptyArgIn(list) ==
    \E i \in 1..Len(list) :
        /\ list[i].type = "Function"
        /\ \E j \in 1..Len(list[i].args) :
              \/ Len(list[i].args[j].nodes) = 0
              \/ EmptyArgIn(list[i].args[j].nodes)

\* is there a Function node without arguments
RECURSIVE NoArgsIn(_)
NoArgsIn(list) ==
    \E i \in 1..Len(list) :
        /\ list[i].type = "Function"
        /\ \/ Len(list[i].args) = 0
           \/ \E j \in 1..Len(list[i].args) : NoArgsIn(list[i].args[j].nodes)

\* C12: a closed function tag whose scan gave no argument raises the
\* StrictModeError "Expected at least one argument for the tag payload." at
\* its colon in strict mode and is a Function node with args = [] otherwise;
\* no Argument node is ever empty, "{func:a||b}" has exactly two arguments,
\* and a strict parse never returns a Function node without arguments.
C12_NoEmptyArguments ==
    Called =>
        /\ ~Last.threw => ~EmptyArgIn(Result)
        /\ (strict /\ ~Last.threw) => ~NoArgsIn(Result)
        /\ (strict /\ LastInput \in OnlyEmptySegments \cup {ExNoArgs}) =>
               (/\ Last.threw
                /\ Last.error.name = "StrictModeError"
                /\ Last.error.message[1] = MsgNoArgs
                /\ \E k \in 1..Len(LastTokens) :
                      /\ LastTokens[k].type = "Colon"
                      /\ Last.error.position = LastTokens[k].position)
        /\ (~strict /\ LastInput \in OnlyEmptySegments) =>
               (/\ Len(Result) = 1
                /\ Result[1].type = "Function"
                /\ Result[1].name = <<"a">>
                /\ Result[1].args = <<>>)
        /\ (~strict /\ LastInput = ExNoArgs) =>
               (/\ Len(Result) = 1
                /\ Result[1].type = "Function"
                /\ Result[1].name = <<"t", "a", "g">>
                /\ Result[1].args = <<>>)
        /\ LastInput = ExEmptySegment =>
               (/\ ~Last.threw
                /\ Len(Result) = 1
                /\ Result[1].type = "Function"
                /\ Len(Result[1].args) = 2
                /\ Result[1].args[1].nodes = <<TextNode(<<"a">>)>>
                /\ Result[1].args[2].nodes = <<TextNode(<<"b">>)>>)

\* C12 witness: the strict call on "{tag:}" raised the missing-argument error.
C12_Witness ==
    /\ Called /\ strict
    /\ LastInput = ExNoArgs
    /\ Last.threw
    /\ Last.error.message[1] = MsgNoArgs

\* the argument texts of the payload rest of a function tag, read from the
\* text itself: a pipe, a closing or an opening brace right after a backslash
\* replaces that backslash; any other pipe ends a segment, and an empty
\* segment is no argument; the first other closing brace ends the payload.
\* An opening brace that is not escaped, or the end of the text, makes ok false.
RECURSIVE RefArgs(_, _, _, _)
RefArgs(rest, i, cur, args) ==
    IF i > Len(rest) THEN [ok |-> FALSE, args |-> args, end |-> i]
    ELSE IF rest[i] \in {"|", "}", "{"} /\ i > 1 /\ Len(cur) > 0 /\ rest[i - 1] = "\\"
    THEN RefArgs(rest, i + 1, SubSeq(cur, 1, Len(cur) - 1) \o <<rest[i]>>, args)
    ELSE IF rest[i] = "|"
    THEN RefArgs(rest, i + 1, <<>>, IF cur = <<>> THEN args ELSE Append(args, cur))
    ELSE IF rest[i] = "}"
    THEN [ok |-> TRUE, args |-> IF cur = <<>> THEN args ELSE Append(args, cur),
          end |-> i]
    ELSE IF rest[i] = "{"
    THEN [ok |-> FALSE, args |-> args, end |-> i]
    ELSE RefArgs(rest, i + 1, Append(cur, rest[i]), args)

\* the payload of the last input when it is "{a:" payload
Payload == SubSeq(LastInput, 4, Len(LastInput))
IsFunctionA ==
    /\ Len(LastInput) > 3
    /\ SubSeq(LastInput, 1, 3) = <<"{", "a", ":">>
    /\ RefArgs(Payload, 1, <<>>, <<>>).ok
    /\ RefArgs(Payload, 1, <<>>, <<>>).end = Len(Payload)

\* C13: in the arguments of a function tag a pipe, a closing brace or an
\* opening brace right after a backslash is no delimiter: the backslash is
\* removed and the delimiter's text joins the argument; a backslash before a
\* colon or anything else is kept.  For every input "{a:" payload "}" without
\* a nested tag the arguments are the texts read from the payload by that
\* rule ("a\|a" is the one argument "a|a", "a\}a" is "a}a", "\\|" is "\|",
\* "a\:a" is kept).
C13_EscapesInArguments ==
    (Called /\ IsFunctionA) =>
        LET expected == RefArgs(Payload, 1, <<>>, <<>>).args
        IN /\ (~strict \/ expected # <<>>) =>
                  (/\ ~Last.threw
                   /\ Len(Result) = 1
                   /\ Result[1].type = "Function"
                   /\ Result[1].name = <<"a">>
                   /\ Len(Result[1].args) = Len(expected)
                   /\ \A j \in 1..Len(expected) :
                         Result[1].args[j].nodes = <<TextNode(expected[j])>>)
           /\ Payload = <<"a", "\\", "|", "a", "}">> => expected = << <<"a", "|", "a">> >>
           /\ Payload = <<"a", "\\", "}", "a", "}">> => expected = << <<"a", "}", "a">> >>
           /\ Payload = <<"a", "\\", "{", "a", "}">> => expected = << <<"a", "{", "a">> >>
           /\ Payload = <<"\\", "\\", "|", "}">> => expected = << <<"\\", "|">> >>
           /\ Payload = <<"a", "\\", ":", "a", "}">> =>
                  expected = << <<"a", "\\", ":", "a">> >>
           /\ Payload = <<"a", "\\", " ", "|", "}">> => expected = << <<"a", "\\", " ">> >>

\* C13 witness: "{a:a\|a}" came back as the one argument "a|a".
C13_Witness ==
    /\ Called /\ strict
    /\ LastInput = <<"{", "a", ":", "a", "\\", "|", "a", "}">>
    /\ ~Last.threw
    /\ Len(Result[1].args) = 1
    /\ Result[1].args[1].nodes = <<TextNode(<<"a", "|", "a">>)>>

ExEscapedTags ==
    <<"\\", "{", "t", "a", "g", "}", " ", "h", "e", "r", "e", " ",
      "\\", "{", "f", "u", "n", "c", ":", "a", "r", "g", "}">>

\* the text without the backslash in front of every opening brace
RECURSIVE Unescaped(_)
Unescaped(text) ==
    IF Len(text) = 0 THEN <<>>
    ELSE IF Len(text) > 1 /\ text[1] = "\\" /\ text[2] = "{"
    THEN <<"{">> \o Unescaped(SubSeq(text, 3, Len(text)))
    ELSE <<text[1]>> \o Unescaped(Tail(text))

\* every opening brace of the text comes right after a backslash
AllTagsEscaped(text) ==
    /\ \E i \in 1..Len(text) : text[i] = "{"
    /\ \A i \in 1..Len(text) : text[i] = "{" => (i > 1 /\ text[i - 1] = "\\")

\* C14: at the top level an opening delimiter right after a backslash opens
\* no tag, in strict and non-strict mode alike: when every opening brace of
\* the input is escaped the call returns the single Text node of the input
\* without those backslashes, parseTag is never called and no resolver is
\* invoked ("\{tag} here \{func:arg}" gives "{tag} here {func:arg}").
C14_EscapedTagStart ==
    Called =>
        /\ AllTagsEscaped(LastInput) =>
               (/\ ~Last.threw
                /\ Result = <<TextNode(Unescaped(LastInput))>>
                /\ trace.tags = 0
                /\ trace.calls = <<>>)
        /\ LastInput = ExEscapedTags =>
               Result = <<TextNode(<<"{", "t", "a", "g", "}", " ", "h", "e", "r", "e", " ",
                                     "{", "f", "u", "n", "c", ":", "a", "r", "g", "}">>)>>

\* C14 witness: the strict, evaluating parser returned the example as text.
C14_Witness ==
    /\ Called /\ strict /\ evaluateTags
    /\ LastInput = ExEscapedTags
    /\ ~Last.threw
    /\ Len(Result) = 1 /\ Result[1].type = "Text"
    /\ trace.tags = 0

ExSay ==
    <<"{", "s", "a", "y", ":", "h", "e", "l", "l", "o", " ",
      "{", "u", "s", "e", "r", "}", ".", "}">>
ExTypes == <<"{", "a", ":", "a", "{", "a", "\\", "}", "{", "\\", "}", "}">>
ExOtherTypes ==
    <<"{", "a", ":", "a", "{", "a", "a", ":", "a", "}", "{", "a", "a", "}", "}">>

\* what a child contributes to finalValue, read from the node
RefContribution(node) ==
    IF node.type = "Text" THEN node.value
    ELSE IF "value" \notin DOMAIN node THEN <<>>
    ELSE IF node.value.typeof \in {"string", "number", "boolean"} THEN node.value.text
    ELSE <<>>

RECURSIVE RefConcat(_)
RefConcat(list) ==
    IF Len(list) = 0 THEN <<>> ELSE RefContribution(list[1]) \o RefConcat(Tail(list))

\* every Argument at every depth has the finalValue its children give
RECURSIVE FinalValuesRight(_)
FinalValuesRight(list) ==
    \A i \in 1..Len(list) :
        list[i].type = "Function" =>
            \A j \in 1..Len(list[i].args) :
                /\ "finalValue" \in DOMAIN list[i].args[j]
                /\ list[i].args[j].finalValue = RefConcat(list[i].args[j].nodes)
                /\ FinalValuesRight(list[i].args[j].nodes)

\* C15: with evaluation on, the finalValue of every Argument is the in-order
\* concatenation of the values of its children that are a string, a number or
\* a boolean; a null or undefined value adds nothing.  "{say:hello {user}.}"
\* with the upper-casing resolver gives "hello USER.".
C15_FinalValue ==
    (Called /\ evaluateTags /\ ~Last.threw) =>
        /\ FinalValuesRight(Result)
        /\ LastInput = ExSay =>
               (/\ Len(Result) = 1 /\ Len(Result[1].args) = 1
                /\ Result[1].args[1].finalValue =
                       <<"h", "e", "l", "l", "o", " ", "U", "S", "E", "R", ".">>)
        /\ LastInput = ExTypes =>
               Result[1].args[1].finalValue = <<"a", "t", "r", "u", "e", "7">>
        /\ LastInput = ExOtherTypes =>
               Result[1].args[1].finalValue = <<"a">>

\* C15 witness: an argument with a Function child resolved to undefined and a
\* Variable child resolved to null has the finalValue of its text alone.
C15_Witness ==
    /\ Called /\ evaluateTags /\ ~Last.threw
    /\ LastInput = ExOtherTypes
    /\ Len(Result[1].args[1].nodes) = 3
    /\ Result[1].args[1].nodes[2].value = JsUndefined
    /\ Result[1].args[1].nodes[3].value = JsNull
    /\ Result[1].args[1].finalValue = <<"a">>

\* has some node of the tree a value (Variable, Function) or a finalValue
RECURSIVE SomeEvaluatedIn(_)
SomeEvaluatedIn(list) ==
    \E i \in 1..Len(list) :
        \/ list[i].type \in {"Variable", "Function"} /\ "value" \in DOMAIN list[i]
        \/ /\ list[i].type = "Function"
           /\ \E j \in 1..Len(list[i].args) :
                 \/ "finalValue" \in DOMAIN list[i].args[j]
                 \/ SomeEvaluatedIn(list[i].args[j].nodes)

\* has every Variable and Function a value and every Argument a finalValue
RECURSIVE AllEvaluatedIn(_)
AllEvaluatedIn(list) ==
    \A i \in 1..Len(list) :
        /\ list[i].type \in {"Variable", "Function"} => "value" \in DOMAIN list[i]
        /\ list[i].type = "Function" =>
              \A j \in 1..Len(list[i].args) :
                  /\ "finalValue" \in DOMAIN list[i].args[j]
                  /\ AllEvaluatedIn(list[i].args[j].nodes)

\* C16: value and finalValue are in the result exactly when evaluation was
\* requested at construction (evaluateTags, or parseTags when evaluateTags is
\* not given): with evaluation off no node at any depth has them, with
\* evaluation on every Variable, Function and Argument at every depth has them.
C16_EvaluatedFields ==
    (Called /\ ~Last.threw) =>
        /\ evaluateTags = EvaluationRequested(options)
        /\ EvaluationRequested(options) => AllEvaluatedIn(Result)
        /\ ~EvaluationRequested(options) => ~SomeEvaluatedIn(Result)

\* C16 witness: a parser built with parseTags alone evaluated a function tag
\* with a nested variable and a nested function.
C16_Witness ==
    /\ Called /\ ~Last.threw
    /\ options.evaluateTags = Undefined /\ options.parseTags = "true"
    /\ LastInput = <<"{", "a", ":", "a", "{", "a", "}", "|", "{", "a", ":", "a", "}", "}">>
    /\ Len(Result) = 1
    /\ Len(Result[1].args) = 2
    /\ AllEvaluatedIn(Result)

\* evaluation as the options ask for it: evaluateTags when given, else parseTags
AskedToEvaluate ==
    \/ options.evaluateTags = "true"
    \/ options.evaluateTags = Undefined /\ options.parseTags = "true"

BothCallable ==
    options.functionParser = "function" /\ options.variableParser = "function"

\* C20: new Parser(options) with evaluation enabled (evaluateTags true, or
\* parseTags true when evaluateTags is not given) throws at once a plain
\* TagParseError without position unless both resolvers are functions,
\* whatever strict is; with evaluation disabled it never throws, whatever the
\* resolvers are, and parse invokes no resolver.
C20_ConstructorResolvers ==
    built # NotBuilt =>
        /\ (AskedToEvaluate /\ ~BothCallable) =>
               (/\ built.status = "threw"
                /\ built.error.name = "TagParseError"
                /\ built.error.message = MsgResolvers
                /\ built.error.position = NoPosition
                /\ ~Called)
        /\ (AskedToEvaluate /\ BothCallable) =>
               (built.status = "ok" /\ evaluateTags)
        /\ ~AskedToEvaluate =>
               (/\ built.status = "ok"
                /\ ~evaluateTags
                /\ Called => (trace.calls = <<>> /\ trace.tags > 0))
        /\ strict = (options.strict = "true")

\* C20 witness: a strict parser asked to evaluate through parseTags, with a
\* function resolver and a variable resolver that is no function, threw.
C20_Witness ==
    /\ options.strict = "true"
    /\ options.evaluateTags = Undefined /\ options.parseTags = "true"
    /\ options.functionParser = "function" /\ options.variableParser = "string"
    /\ built.status = "threw"
    /\ built.error.name = "TagParseError"

\* what parseAsync gives when it is called alone, on a new ParserAsync with
\* the same options, with the input of the last parse() call
AsyncOfLast == AsyncOutcome(AsyncAlone(LastInput, Config))

\* parseAsync and parse ended the same way on the last input
SameAsLast ==
    /\ AsyncOfLast.threw = Last.threw
    /\ AsyncOfLast.error = Last.error
    /\ ~Last.threw => AsyncOfLast.value = Result

\* C17: with evaluation disabled, for every input and both strict settings,
\* parseAsync(input) resolves to a node list equal to the one parse(input)
\* returns with the same options, and rejects with the same error exactly
\* when parse throws, unterminated function tags with nested tags included.
C17_AsyncEquivalent == (Called /\ ~evaluateTags) => SameAsLast

\* where the two parsers differ: the input has a function tag that is not
\* terminated and has a nested tag in its arguments
C17_DivergenceOnlyUnclosedNested ==
    (Called /\ ~evaluateTags /\ ~SameAsLast) =>
        /\ ~strict
        /\ trace.unclosed # <<>>
        /\ trace.tags > 1
        /\ ~Last.threw /\ ~AsyncOfLast.threw

\* the resolver events of call c, and its invocations, in the order they happened
EventsOf(c) == SelectSeq(aLog, LAMBDA e : e.call = c)
InvocationsOf(c) == SelectSeq(aLog, LAMBDA e : e.call = c /\ e.kind = "invoke")

Settled(c) == aCalls[c].status \in {"fulfilled", "rejected"}

\* call c ran with no other call in flight
Alone(c) == ~aCalls[c].overlapped

\* a resolver of call c is invoked only when every resolver the call invoked
\* before has settled: invocations and settlements alternate, each
\* settlement being that of the invocation before it
NeverOverlap(c) ==
    \A i \in 1..Len(EventsOf(c)) :
        IF i % 2 = 1
        THEN EventsOf(c)[i].kind = "invoke"
        ELSE /\ EventsOf(c)[i].kind = "settle"
             /\ EventsOf(c)[i].start = EventsOf(c)[i - 1].start

\* the invocations of call c in the order of the closing delimiters of their tags
InClosingOrder(c) ==
    \A i, j \in 1..Len(InvocationsOf(c)) :
        i < j => InvocationsOf(c)[i].end < InvocationsOf(c)[j].end

\* the invocations of call c in the order of the opening delimiters of their tags
InOpeningOrder(c) ==
    \A i, j \in 1..Len(InvocationsOf(c)) :
        i < j => InvocationsOf(c)[i].start < InvocationsOf(c)[j].start

\* a tag invoked before one that opens earlier lies inside it
NestedWhenEarlier(c) ==
    \A i, j \in 1..Len(InvocationsOf(c)) :
        (i < j /\ InvocationsOf(c)[j].start < InvocationsOf(c)[i].start) =>
            InvocationsOf(c)[i].end < InvocationsOf(c)[j].end

\* C18 (as claimed): within one parseAsync call the resolver invocations
\* never overlap and the resolver of a tag that appears later in the input
\* is never invoked before the resolver of a tag that appears earlier.
C18_AsClaimed ==
    \A c \in DOMAIN aCalls : NeverOverlap(c) /\ (Alone(c) => InOpeningOrder(c))

\* C18 (amended): within one parseAsync call the resolver invocations never
\* overlap, and they happen in the order in which the tags are closed: a tag
\* nested in the arguments of a function tag is resolved before the function
\* tag, which opens earlier; tags that do not enclose one another are
\* resolved left to right.
C18_ClosingOrder ==
    \A c \in DOMAIN aCalls :
        NeverOverlap(c) /\ (Alone(c) => (InClosingOrder(c) /\ NestedWhenEarlier(c)))

\* a call that ran alone resolved a nested variable tag and, after it had
\* settled, the function tag around it, which opens earlier in the input
C18_Witness ==
    \E c \in DOMAIN aCalls :
        /\ Alone(c) /\ aCalls[c].status = "fulfilled"
        /\ Len(EventsOf(c)) >= 4
        /\ \E i, j \in 1..Len(InvocationsOf(c)) :
              /\ i < j
              /\ InvocationsOf(c)[j].start < InvocationsOf(c)[i].start
              /\ InvocationsOf(c)[i].tag = "variable"
              /\ InvocationsOf(c)[j].tag = "function"

\* what call c gives when it is the only call made on a new instance
AloneOutcome(c) == AsyncOutcome(AsyncAlone(aCalls[c].input, Config))

\* what call c gave
OutcomeOf(c) ==
    [threw |-> aCalls[c].status = "rejected", error |-> aCalls[c].err,
     value |-> aCalls[c].value]

\* C19: two parseAsync calls in flight at the same time on one instance are
\* unsafe: the reset of a later call replaces the node list and the lexer
\* under a call that is still suspended, and a call ends otherwise than when
\* it is run alone only if another call was in flight with it.
C19_UnsafeWhenOverlapped ==
    \A c \in DOMAIN aCalls :
        /\ (InFlight(c) /\ c < Len(aCalls)) =>
              /\ aCalls[c].overlapped
              /\ aInst.nodes # aCalls[c].own
              /\ aInst.input # aCalls[c].frames[1].iter
        /\ (Settled(c) /\ OutcomeOf(c) # AloneOutcome(c)) => aCalls[c].overlapped

\* a call started while the first was suspended at an awaited resolver, and
\* the first resolved to a node list that is not the one it gives alone
C19_Witness ==
    \E c, d \in DOMAIN aCalls :
        /\ c < d
        /\ aCalls[d].sawWaiting
        /\ aCalls[c].status = "fulfilled"
        /\ ~AloneOutcome(c).threw
        /\ aCalls[c].value # AloneOutcome(c).value

\* C22 (as claimed): Stream.length is the number of code points of the
\* original input in every state: before the first next(), after each
\* next() that returned true, and after next() returned false.
C22_LengthIsTotal == StreamLength(lStream) = Len(lInput)

\* what the stream gives: the total until next() returns false, and one less
\* than the total from then on when the input is not empty
C22_LengthUntilExhaustion ==
    /\ lAt \in {"loop", "flush"} => StreamLength(lStream) = Len(lInput)
    /\ (lAt \in {"final", "end"} /\ Len(lInput) > 0) =>
           StreamLength(lStream) = Len(lInput) - 1
    /\ (lAt \in {"final", "end"} /\ Len(lInput) = 0) => StreamLength(lStream) = 0

\* the values of the tokens, one after the other
RECURSIVE ConcatValues(_)
ConcatValues(toks) ==
    IF Len(toks) = 0 THEN <<>> ELSE Head(toks).value \o ConcatValues(Tail(toks))

SpacesOnly(s) == \A i \in 1..Len(s) : s[i] = " "

\* C29: the Lexer is lossless and total: for every input and delimiter
\* configuration the values of the emitted tokens, in order, concatenate to
\* the input (at every yield and every turn: tokens, the token about to
\* be pushed, pending buffer and unread rest make up the input), every
\* Literal is non-empty, no two consecutive tokens are both Literal, the
\* empty input gives no token and n spaces give n Space tokens.
C29_Lossless ==
    /\ ConcatValues(lLexer.tokens) \o ConcatValues(lPending)
           \o lLexer.buffer \o lStream.buffer = lInput
    /\ lAt = "flush" <=> Len(lPending) = 1
    /\ lAt = "end" <=> lDone
    /\ \A i \in 1..Len(lLexer.tokens) :
          /\ lLexer.tokens[i].type = "Literal" => Len(lLexer.tokens[i].value) > 0
          /\ (i > 1 /\ lLexer.tokens[i].type = "Literal") =>
                lLexer.tokens[i - 1].type # "Literal"
    /\ lDone =>
          /\ lLexer.buffer = <<>> /\ lStream.buffer = <<>>
          /\ ConcatValues(lLexer.tokens) = lInput
          /\ lLexer.tokens = Tokenize(lInput, lOptions)
          /\ lInput = <<>> => lLexer.tokens = <<>>
          /\ SpacesOnly(lInput) =>
                /\ Len(lLexer.tokens) = Len(lInput)
                /\ \A i \in 1..Len(lLexer.tokens) : lLexer.tokens[i].type = "Space"

\* an iteration that ended after it cut the prefix of a two-code-point
\* delimiter off a pending Literal
C29_Witness ==
    /\ lDone
    /\ Len(lLexer.tokens) >= 3
    /\ \E i \in 2..Len(lLexer.tokens) :
          /\ lLexer.tokens[i].type \in {"TagStart", "TagEnd"}
          /\ Len(lLexer.tokens[i].value) = 2
          /\ lLexer.tokens[i - 1].type = "Literal"

\* the position of the i-th code point of an input, counted in code points
LineOf(input, i) == 1 + Cardinality({j \in 1..(i - 1) : input[j] = "\n"})
ColumnOf(input, i) ==
    i - (IF \E j \in 1..(i - 1) : input[j] = "\n"
         THEN CHOOSE j \in 1..(i - 1) :
                 /\ input[j] = "\n"
                 /\ \A k \in (j + 1)..(i - 1) : input[k] # "\n"
         ELSE 0)
PositionOf(input, i) ==
    [line |-> LineOf(input, i), column |-> ColumnOf(input, i), offset |-> i - 1]

\* the index in the input of the first code point of the i-th token
FirstIndex(toks, i) == Len(ConcatValues(SubSeq(toks, 1, i - 1))) + 1

\* the i-th emitted token carries the position of its first code point
PositionRight(i) ==
    /\ lLexer.tokens[i].position.line >= 1
    /\ lLexer.tokens[i].position.column >= 1
    /\ lLexer.tokens[i].position.offset >= 0
    /\ lLexer.tokens[i].position = PositionOf(lInput, FirstIndex(lLexer.tokens, i))

\* a delimiter whose prefix has no code point outside the Basic Multilingual
\* Plane and no line break
PlainPrefix(delim) ==
    \A k \in 1..(Len(delim) - 1) : delim[k] \notin AstralChars /\ delim[k] # "\n"

\* C21 (as claimed): every emitted token carries the position of its first
\* contributing code point, with line >= 1, column >= 1 and offset >= 0
\* counted in code points, the TagStart and TagEnd tokens of delimiters with
\* code points outside the Basic Multilingual Plane included.
C21_FirstCodePointPosition ==
    \A i \in 1..Len(lLexer.tokens) : PositionRight(i)

\* where the positions are right: every token but the TagStart and TagEnd
\* tokens of a delimiter whose prefix is not plain
C21_RightButAstralDelimiters ==
    \A i \in 1..Len(lLexer.tokens) :
        (lLexer.tokens[i].type \in {"TagStart", "TagEnd"} =>
            PlainPrefix(lLexer.tokens[i].value)) => PositionRight(i)

\* the delimiter d stands in the input at index i
StandsAt(input, i, d) ==
    /\ i + Len(d) - 1 <= Len(input)
    /\ SubSeq(input, i, i + Len(d) - 1) = d

\* the delimiters an input contains from index i on, left to right, an
\* occurrence not overlapping an earlier one
RECURSIVE DelimitersIn(_, _, _, _)
DelimitersIn(input, ts, te, i) ==
    IF i > Len(input) THEN <<>>
    ELSE IF StandsAt(input, i, ts)
    THEN <<[type |-> "TagStart", value |-> ts]>> \o DelimitersIn(input, ts, te, i + Len(ts))
    ELSE IF StandsAt(input, i, te)
    THEN <<[type |-> "TagEnd", value |-> te]>> \o DelimitersIn(input, ts, te, i + Len(te))
    ELSE DelimitersIn(input, ts, te, i + 1)

\* the TagStart and TagEnd tokens emitted, in order, without their positions
RECURSIVE DelimiterTokens(_)
DelimiterTokens(toks) ==
    IF Len(toks) = 0 THEN <<>>
    ELSE (IF Head(toks).type \in {"TagStart", "TagEnd"}
          THEN <<[type |-> Head(toks).type, value |-> Head(toks).value]>>
          ELSE <<>>) \o DelimiterTokens(Tail(toks))

\* the delimiters were recognised wherever they stand in the input
AllRecognised ==
    DelimiterTokens(lLexer.tokens) =
        DelimitersIn(lInput, LexerTagStart(lOptions), LexerTagEnd(lOptions), 1)

\* no code point of the delimiter is a colon, a pipe or a space
NoTokenChar(d) == \A k \in 1..Len(d) : d[k] \notin {":", "|", " "}

\* delimiters the iterator's switch can tell apart: none of their code
\* points is a token of its own, and the last code point of one does not
\* occur in the other
Distinguishable(ts, te) ==
    /\ NoTokenChar(ts) /\ NoTokenChar(te)
    /\ \A k \in 1..Len(te) : te[k] # ts[Len(ts)]
    /\ \A k \in 1..Len(ts) : ts[k] # te[Len(te)]

\* C28 (as claimed): for delimiters made of any non-empty sequence of code
\* points, wherever the input contains the full tagStart or tagEnd, not
\* overlapping an earlier match, one TagStart or TagEnd token with the whole
\* delimiter as value is emitted, and a last code point not preceded by the
\* prefix stays literal; also when the delimiter contains ':', '|' or a
\* space, or when tagStart and tagEnd end with the same code point.
C28_AnyDelimiter == lDone => AllRecognised

\* what holds: the delimiters are recognised when the switch can tell them apart
C28_DistinguishableDelimiters ==
    (lDone /\ Distinguishable(LexerTagStart(lOptions), LexerTagEnd(lOptions)))
        => AllRecognised

(***************************************************************************)
(* Visitor: the callbacks a walk invoked.                                  *)
(***************************************************************************)
IsPrefix(p, q) == Len(p) <= Len(q) /\ SubSeq(q, 1, Len(p)) = p

IsProperPrefix(p, q) == IsPrefix(p, q) /\ p # q

Walked == wCall.fn \in {"walk", "walkDeep"}

WalkPaths == PathsOfList(wNodes, <<>>)

\* the paths of the nodes some callback was invoked for
Visited == {wCall.log[i].path : i \in 1..Len(wCall.log)}

\* the invocations of the callbacks of one kind for one node
Invocations(kind, path) ==
    {i \in 1..Len(wCall.log) :
        wCall.log[i].path = path /\ CallbackKind(wCall.log[i].cb) = kind}

\* the invocations in which the callback called stop()
Stops == {i \in 1..Len(wCall.log) : wCall.log[i].did = "stop"}

\* C23, as the claim states it: once a callback has called stop(), walk and
\* walkDeep invoke no callback at all any more, the leave callbacks of the
\* ancestors of the stopping node included.
C23_NothingAfterStop ==
    Walked => \A i \in Stops : i = Len(wCall.log)

\* C23, what the code guarantees: after stop() the only callbacks invoked
\* are the leave callbacks of ancestors of the node where it was called
\* (none at all under walk).
C23_OnlyLeaveOfAncestors ==
    Walked =>
        \A i \in Stops : \A k \in (i + 1)..Len(wCall.log) :
            /\ wCall.fn = "walkDeep"
            /\ wCall.log[k].cb = "leave"
            /\ IsProperPrefix(wCall.log[k].path, wCall.log[i].path)

\* the node of a list at a path
RECURSIVE NodeAt(_, _)
NodeAt(list, path) ==
    IF Len(path) = 1 THEN list[path[1]]
    ELSE IF Len(path) = 2 THEN list[path[1]].args[path[2]]
    ELSE NodeAt(list[path[1]].args[path[2]].nodes, SubSeq(path, 3, Len(path)))

\* the descendants of the node at a path
Below(path) == {q \in WalkPaths : IsProperPrefix(path, q)}

\* the callbacks a walk invoked and their nodes, in order
CallbacksOf(log) == [i \in 1..Len(log) |-> [cb |-> log[i].cb, path |-> log[i].path]]

\* walkDeep was called and a callback called skipChildren()
Skipped ==
    /\ wCall.fn = "walkDeep"
    /\ \E i \in 1..Len(wCall.log) : wCall.log[i].did = "skipChildren"

\* an ArgumentNode that follows, in the args of the same Function node, the
\* node where skipChildren() was called or an ancestor of that node
LaterArgument(a) ==
    /\ Len(a) % 2 = 0
    /\ Len(a) <= Len(wVisitor.at)
    /\ SubSeq(a, 1, Len(a) - 1) = SubSeq(wVisitor.at, 1, Len(a) - 1)
    /\ a[Len(a)] > wVisitor.at[Len(a)]

\* C24, as the claim states it: under walkDeep a call of skipChildren()
\* keeps the walk out of the children of the calling node only, every other
\* node is still visited, and on a Text or Variable node the call changes
\* nothing in the traversal.
C24_OnlyOwnChildren ==
    Skipped =>
        /\ (WalkPaths \ Below(wVisitor.at)) \subseteq Visited
        /\ NodeAt(wNodes, wVisitor.at).type \in {"Text", "Variable"} =>
               CallbacksOf(wCall.log) = CallbacksOf(walkDeep(wNodes, NoControl).log)

\* C24, what the code guarantees: the nodes the walk misses lie below the
\* calling node or below a later argument of an enclosing Function node.
C24_OwnChildrenOrLaterArguments ==
    Skipped =>
        \A q \in WalkPaths \ Visited :
            \/ q \in Below(wVisitor.at)
            \/ \E a \in WalkPaths : LaterArgument(a) /\ IsProperPrefix(a, q)

\* p comes before q in document order: an ancestor before its descendants,
\* earlier siblings and their descendants before later ones
Before(p, q) ==
    \/ IsProperPrefix(p, q)
    \/ \E k \in 1..Len(p) :
          /\ k <= Len(q)
          /\ SubSeq(p, 1, k - 1) = SubSeq(q, 1, k - 1)
          /\ p[k] < q[k]

\* the only invocation of the callback of one kind for one node
Only(kind, path) == CHOOSE i \in Invocations(kind, path) : TRUE

\* every node in scope got enter, its type callback and leave once each,
\* in that order, and no other node got any callback
OncePerNode(scope) ==
    /\ Visited = scope
    /\ \A p \in scope :
          /\ \A kind \in {"enter", "type", "leave"} :
                Cardinality(Invocations(kind, p)) = 1
          /\ wCall.log[Only("type", p)].cb = TypeCallback(NodeAt(wNodes, p))
          /\ Only("enter", p) < Only("type", p)
          /\ Only("type", p) < Only("leave", p)

\* nodes are entered in document order, and a node's descendants get all
\* their callbacks between its type callback and its leave
PreOrder(scope) ==
    \A p, q \in scope :
        /\ Before(p, q) => Only("enter", p) < Only("enter", q)
        /\ IsProperPrefix(p, q) =>
              /\ Only("type", p) < Only("enter", q)
              /\ Only("leave", q) < Only("leave", p)

TopLevel == {<<i>> : i \in 1..Len(wNodes)}

\* C25: with a visitor that calls neither stop() nor skipChildren(),
\* walkDeep gives every node of the tree (Argument nodes included) enter,
\* then its type callback, then its descendants in depth-first pre-order,
\* then leave, each once; countNodes returns the number of nodes at all
\* depths; walk invokes callbacks for the top-level nodes only.
C25_PreOrderOnce ==
    /\ (wCall.fn = "walkDeep" /\ wVisitor.act = "none") =>
           OncePerNode(WalkPaths) /\ PreOrder(WalkPaths)
    /\ wCall.fn = "countNodes" => wCall.count = Cardinality(WalkPaths)
    /\ (wCall.fn = "walk" /\ wVisitor.act = "none") =>
           OncePerNode(TopLevel) /\ PreOrder(TopLevel)

\* walkDeep has walked a tree with a Function node nested in an argument
C25_Witness ==
    /\ wCall.fn = "walkDeep"
    /\ wVisitor.act = "none"
    /\ \E i \in 1..Len(wCall.log) :
          Len(wCall.log[i].path) = 5 /\ wCall.log[i].cb = "leave"

(***************************************************************************)
(* Transformer: what a call of transform returned and offered.             *)
(***************************************************************************)
TransformDone == tCall.fn = "transform"

\* the tree handed to transform and the tree it returned, as values
InputTree == Decode(tInput.heap, tInput.nodes)

ResultTree == Decode(tHeap, tCall.result)

\* transform(transform(nodes, [t1]), [t2]) on the objects as they were built
FirstOnly ==
    transform([heap |-> tInput.heap, log |-> <<>>, pass |-> 0], tInput.nodes,
              <<tTransformers[1]>>)

ThenSecond ==
    transform([FirstOnly.st EXCEPT !.log = <<>>], FirstOnly.ref, <<tTransformers[2]>>)

\* the nodes contributed, in order, by the offers lo..hi made at one depth
RECURSIVE Contributed(_, _, _)
Contributed(lo, hi, depth) ==
    IF lo > hi THEN <<>>
    ELSE (IF tCall.log[lo].depth = depth THEN tCall.log[lo].out ELSE <<>>)
         \o Contributed(lo + 1, hi, depth)

\* the offers made for the descendants of the node of offer k: those since
\* the last earlier offer of the same pass that is not deeper than k
FirstBelow(k) ==
    IF \E i \in 1..(k - 1) : /\ tCall.log[i].pass = tCall.log[k].pass
                             /\ tCall.log[i].depth <= tCall.log[k].depth
    THEN 1 + CHOOSE i \in 1..(k - 1) :
                 /\ tCall.log[i].pass = tCall.log[k].pass
                 /\ tCall.log[i].depth <= tCall.log[k].depth
                 /\ \A j \in (i + 1)..(k - 1) : tCall.log[j].depth > tCall.log[k].depth
    ELSE CHOOSE i \in 1..k :
             /\ tCall.log[i].pass = tCall.log[k].pass
             /\ \A j \in 1..(i - 1) : tCall.log[j].pass # tCall.log[k].pass

\* the children of an offered node, as it was offered: the nodes of its
\* arguments, or its own nodes if it is an ArgumentNode
RECURSIVE NodesOfArguments(_, _)
NodesOfArguments(args, j) ==
    IF j > Len(tHeap[args].items) THEN <<>>
    ELSE tHeap[tHeap[tHeap[args].items[j]].nodes].items \o NodesOfArguments(args, j + 1)

ChildrenOffered(node) ==
    CASE tHeap[node].type = "Function" -> NodesOfArguments(tHeap[node].args, 1)
      [] tHeap[node].type = "Argument" -> tHeap[tHeap[node].nodes].items
      [] OTHER -> <<>>

\* the first and the last offer of a pass
PassOffers(pass) == {k \in 1..Len(tCall.log) : tCall.log[k].pass = pass}

\* C26: the transformers run as successive passes over the whole tree; a
\* node is offered after the offers for all its descendants in the same
\* pass and holds, when offered, exactly what those offers returned,
\* flattened; the list returned is what the top-level offers of the last
\* pass returned, flattened; and transform(nodes, [t1, t2]) equals
\* transform(transform(nodes, [t1]), [t2]).
C26_SuccessivePasses ==
    TransformDone =>
        /\ \A k \in 1..Len(tCall.log) :
              /\ ChildrenOffered(tCall.log[k].node)
                     = Contributed(FirstBelow(k), k - 1, tCall.log[k].depth + 1)
              /\ \A i \in 1..(k - 1) : tCall.log[i].pass <= tCall.log[k].pass
        /\ Len(tTransformers) > 0 =>
              /\ PassOffers(Len(tTransformers)) # {} =>
                     tHeap[tCall.result].items
                         = Contributed(CHOOSE k \in PassOffers(Len(tTransformers)) :
                                           \A i \in PassOffers(Len(tTransformers)) : k <= i,
                                       Len(tCall.log), 0)
              /\ PassOffers(Len(tTransformers)) = {} => tHeap[tCall.result].items = <<>>
        /\ Len(tTransformers) = 1 => ResultTree = Decode(FirstOnly.st.heap, FirstOnly.ref)
        /\ Len(tTransformers) = 2 => ResultTree = Decode(ThenSecond.st.heap, ThenSecond.ref)

\* two transformers ran, and the second was offered a Function node whose
\* children the first pass had changed
C26_Witness ==
    /\ TransformDone
    /\ Len(tTransformers) = 2
    /\ ResultTree # InputTree
    /\ ResultTree # Decode(FirstOnly.st.heap, FirstOnly.ref)
    /\ \E k \in PassOffers(2) :
          /\ tHeap[tCall.log[k].node].type = "Function"
          /\ ChildrenOffered(tCall.log[k].node) # <<>>
          /\ \E i \in PassOffers(1) : tCall.log[i].depth > 0 /\ tCall.log[i].out # <<tCall.log[i].node>>

\* the objects that existed when transform was called
Originals == 1..Len(tInput.heap)

\* C27: transform changes no object of its input: the input list, every
\* original node and every original args array and node list are after the
\* call what they were before it; the Function and Argument nodes offered
\* and returned with transformed children are new objects, copied one
\* level deep: the leaves they hold are not copied.
C27_InputUnchanged ==
    TransformDone =>
        /\ \A ref \in Originals : tHeap[ref] = tInput.heap[ref]
        /\ Decode(tHeap, tInput.nodes) = InputTree
        /\ \A k \in 1..Len(tCall.log) :
              IF tHeap[tCall.log[k].node].type \in {"Function", "Argument"}
              THEN tCall.log[k].node \notin Originals
              ELSE tCall.log[k].pass = 1 => tCall.log[k].node \in Originals
        /\ tCall.result \in Originals <=> tTransformers = <<>>

\* a Function node was offered, in a copy, with children other than those of
\* the input, and the tree returned differs from the input
C27_Witness ==
    /\ TransformDone
    /\ ResultTree # InputTree
    /\ \E k \in PassOffers(1) :
          /\ tHeap[tCall.log[k].node].type = "Function"
          /\ \E i \in FirstBelow(k)..(k - 1) :
                tCall.log[i].out # <<tCall.log[i].node>>

\* the resolver invocations the nodes of a list stand for, in the order the
\* parser makes them: those of a tag's arguments before the tag's own
RECURSIVE EvaluatedIn(_), EvaluatedInArgs(_)
EvaluatedInNode(node) ==
    CASE node.type = "Function" ->
             EvaluatedInArgs(node.args) \o << <<"function", node.name>> >>
      [] node.type = "Variable" -> << <<"variable", node.raw>> >>
      [] OTHER -> <<>>

EvaluatedInArgs(args) ==
    IF args = <<>> THEN <<>>
    ELSE EvaluatedIn(Head(args).nodes) \o EvaluatedInArgs(Tail(args))

EvaluatedIn(list) ==
    IF list = <<>> THEN <<>>
    ELSE EvaluatedInNode(Head(list)) \o EvaluatedIn(Tail(list))

\* C30, as the claim states it: with evaluation enabled the resolver
\* invocations of a call that returns are, one for one, the Variable and
\* Function nodes of the returned tree; no resolver is invoked for a tag
\* whose result is thrown away, such as a tag nested in a function tag that
\* is left unterminated and becomes text.
C30_EveryInvocationKept ==
    (Called /\ evaluateTags /\ ~Last.threw) => trace.calls = EvaluatedIn(Result)

\* C30, what the code guarantees: the invocations are the nodes of the
\* returned tree whenever no function tag of the input was left unterminated.
C30_KeptUnlessUnterminated ==
    (Called /\ evaluateTags /\ ~Last.threw /\ trace.unclosed = <<>>) =>
        trace.calls = EvaluatedIn(Result)
====
